---- MODULE Spec2Model ----
(***************************************************************************)
(* Code Runner MCP: the request handlers (execute_code,                    *)
(* execute_code_with_variables), the static validator (InputValidator),    *)
(* the executors (JavaScriptExecutor, PythonExecutor on BaseExecutor) and   *)
(* the deadline race (BaseExecutor.createTimeoutPromise).                  *)
(*                                                                         *)
(* Source text is a TLA+ string; a regular expression of the source is a    *)
(* set of alternatives, each a sequence of atoms, and RegExp.test is        *)
(* computed by a position-set simulation over the characters.              *)
(***************************************************************************)
EXTENDS Integers, Sequences, FiniteSets, TLC

(***************************************************************************)
(* Characters and strings                                                  *)
(***************************************************************************)
CharAt(s, i) == SubSeq(s, i, i)

Ws == {" ", "\t", "\n", "\r"}

Digit == {"0", "1", "2", "3", "4", "5", "6", "7", "8", "9"}

Letter ==
  {"a", "b", "c", "d", "e", "f", "g", "h", "i", "j", "k", "l", "m",
   "n", "o", "p", "q", "r", "s", "t", "u", "v", "w", "x", "y", "z",
   "A", "B", "C", "D", "E", "F", "G", "H", "I", "J", "K", "L", "M",
   "N", "O", "P", "Q", "R", "S", "T", "U", "V", "W", "X", "Y", "Z"}

WordCh == Letter \cup Digit \cup {"_"}

LineTerm == {"\n", "\r"}

\* String.prototype.trim() === '' : every character is white space
IsBlank(s) == \A i \in 1..Len(s) : CharAt(s, i) \in Ws

\* String.prototype.includes
Contains(s, sub) ==
  \E i \in 1..(Len(s) - Len(sub) + 1) : SubSeq(s, i, i + Len(sub) - 1) = sub

\* String.prototype.indexOf(sub, from), 1-based; 0 when absent
IndexOf(s, sub, from) ==
  LET hits == {i \in from..(Len(s) - Len(sub) + 1) : SubSeq(s, i, i + Len(sub) - 1) = sub}
  IN IF hits = {} THEN 0 ELSE CHOOSE i \in hits : \A j \in hits : i <= j

\* String.prototype.split(sep) for a non-empty separator
RECURSIVE Split(_, _)
Split(s, sep) ==
  LET i == IndexOf(s, sep, 1)
  IN IF i = 0 THEN <<s>>
     ELSE <<SubSeq(s, 1, i - 1)>> \o Split(SubSeq(s, i + Len(sep), Len(s)), sep)

\* Array.prototype.join(sep)
RECURSIVE Join(_, _)
Join(parts, sep) ==
  IF Len(parts) = 0 THEN ""
  ELSE IF Len(parts) = 1 THEN parts[1]
  ELSE parts[1] \o sep \o Join(Tail(parts), sep)

\* String.prototype.trim
Trim(s) ==
  LET keep == {i \in 1..Len(s) : CharAt(s, i) \notin Ws}
  IN IF keep = {} THEN ""
     ELSE SubSeq(s, CHOOSE i \in keep : \A j \in keep : i <= j,
                    CHOOSE i \in keep : \A j \in keep : i >= j)

\* F applied to the value of x: x is evaluated once, before F
Pipe(x, F(_)) == CHOOSE y \in {F(v) : v \in {x}} : TRUE

\* Array.prototype.slice(0, n)
Take(seq, n) == SubSeq(seq, 1, IF Len(seq) < n THEN Len(seq) ELSE n)

(***************************************************************************)
(* Regular expressions                                                     *)
(*   atom of kind "cls": a character class (set, or its complement when    *)
(*   neg) repeated min to max times, or min times and more when open;     *)
(*   kinds "bos" and "eos": ^ and $ without the m flag; kind "wb": \b.     *)
(***************************************************************************)
Ch(c) ==
  [k |-> "cls", neg |-> FALSE, set |-> {c}, min |-> 1, max |-> 1, open |-> FALSE]

Lit(str) == [i \in 1..Len(str) |-> Ch(CharAt(str, i))]

Star(S) ==
  [k |-> "cls", neg |-> FALSE, set |-> S, min |-> 0, max |-> 0, open |-> TRUE]

Plus(S) ==
  [k |-> "cls", neg |-> FALSE, set |-> S, min |-> 1, max |-> 1, open |-> TRUE]

AtLeast(S, n) ==
  [k |-> "cls", neg |-> FALSE, set |-> S, min |-> n, max |-> n, open |-> TRUE]

Between(S, n, m) ==
  [k |-> "cls", neg |-> FALSE, set |-> S, min |-> n, max |-> m, open |-> FALSE]

OneOf(S) ==
  [k |-> "cls", neg |-> FALSE, set |-> S, min |-> 1, max |-> 1, open |-> FALSE]

StarNot(S) ==
  [k |-> "cls", neg |-> TRUE, set |-> S, min |-> 0, max |-> 0, open |-> TRUE]

\* [^...]+
PlusNot(S) ==
  [k |-> "cls", neg |-> TRUE, set |-> S, min |-> 1, max |-> 1, open |-> TRUE]

\* a literal under the i flag
LitI(str) ==
  [i \in 1..Len(str) |->
     LET k == IndexOf("abcdefghijklmnopqrstuvwxyz", CharAt(str, i), 1)
     IN OneOf({CharAt(str, i)}
              \cup IF k = 0 THEN {}
                   ELSE {CharAt("ABCDEFGHIJKLMNOPQRSTUVWXYZ", k)})]

Bos == [k |-> "bos"]

Eos == [k |-> "eos"]

Wb == [k |-> "wb"]

\* \s* , \s+ , .* , \d{n,}
WsStar == <<Star(Ws)>>

WsPlus == <<Plus(Ws)>>

DotStar == <<StarNot(LineTerm)>>

Digits(n) == <<AtLeast(Digit, n)>>

InClass(a, c) == IF a.neg THEN c \notin a.set ELSE c \in a.set

IsWordAt(s, i) == i >= 1 /\ i <= Len(s) /\ CharAt(s, i) \in WordCh

\* the first position from p on that holds no character of the class of a
RunStop(a, s, p) ==
  CHOOSE q \in p..(Len(s) + 1) :
    /\ q = Len(s) + 1 \/ ~InClass(a, CharAt(s, q))
    /\ \A r \in p..(q - 1) : InClass(a, CharAt(s, r))

\* the positions a repetition of a started at p can end at, its run of
\* class characters ending at stop
RepeatEnds(a, p, stop) ==
  (p + a.min)..(IF a.open \/ p + a.max > stop THEN stop ELSE p + a.max)

\* the positions after atom a, started at any position of P; a repeated
\* class started at p runs up to the first character outside the class
StepAtom(a, s, P) ==
  IF a.k = "bos" THEN {p \in P : p = 1}
  ELSE IF a.k = "eos" THEN {p \in P : p = Len(s) + 1}
  ELSE IF a.k = "wb" THEN {p \in P : IsWordAt(s, p - 1) # IsWordAt(s, p)}
  ELSE IF a.min = 1 /\ a.max = 1 /\ ~a.open
    THEN {p + 1 : p \in {q \in P : q <= Len(s) /\ InClass(a, CharAt(s, q))}}
    ELSE UNION {RepeatEnds(a, p, RunStop(a, s, p)) : p \in P}

RECURSIVE RunAtoms(_, _, _, _)
RunAtoms(atoms, k, s, P) ==
  IF P = {} \/ k > Len(atoms) THEN P
  ELSE RunAtoms(atoms, k + 1, s, StepAtom(atoms[k], s, P))

\* RegExp.prototype.test with lastIndex 0: a match starting anywhere
Test(re, s) == \E alt \in re : RunAtoms(alt, 1, s, 1..(Len(s) + 1)) # {}

\* the positions where a match of re that starts at position i can end
MatchEnds(re, s, i) == UNION {RunAtoms(alt, 1, s, {i}) : alt \in re}

\* the match that starts at position i and ends at the greatest of ends
MatchAt(i, ends) ==
  [found |-> TRUE, index |-> i - 1,
   lastIndex |-> (CHOOSE x \in ends : \A y \in ends : x >= y) - 1]

\* the match at the first position of from where a match starts, ends[i]
\* being the positions where a match started at i can end
LeftmostMatch(from, ends) ==
  Pipe(CHOOSE x \in from :
         ends[x] # {} /\ \A y \in from : y < x => ends[y] = {},
       LAMBDA i : MatchAt(i, ends[i]))

\* RegExp.prototype.test of a pattern with the g flag whose lastIndex is li:
\* the search starts at index li; the leftmost match sets lastIndex to its
\* end, no match sets it to 0.  The quantifiers of the rule tables are greedy
\* and are followed by literals, so the match found from a start is the
\* longest one.
TestGlobal(re, s, li) ==
  IF \A alt \in re : RunAtoms(alt, 1, s, (li + 1)..(Len(s) + 1)) = {}
    THEN [found |-> FALSE, index |-> 0, lastIndex |-> 0]
    ELSE LeftmostMatch((li + 1)..(Len(s) + 1),
                       [i \in (li + 1)..(Len(s) + 1) |-> MatchEnds(re, s, i)])

\* String.prototype.replace(re, repl) from index li on, re a /g pattern that
\* matches no empty string
RECURSIVE ReplaceFrom(_, _, _, _)
ReplaceMatch(re, s, repl, li, m) ==
  IF ~m.found THEN SubSeq(s, li + 1, Len(s))
  ELSE SubSeq(s, li + 1, m.index) \o repl
       \o ReplaceFrom(re, s, repl, m.lastIndex)

ReplaceFrom(re, s, repl, li) ==
  ReplaceMatch(re, s, repl, li, TestGlobal(re, s, li))

ReplaceAll(re, s, repl) == ReplaceFrom(re, s, repl, 0)

(***************************************************************************)
(* InputValidator (security/validator.ts)                                  *)
(***************************************************************************)
MAX_CODE_LENGTH == 50000

MAX_INPUT_LENGTH == 10000

Rule(re, message) == [re |-> re, message |-> message]

SysModules == {"os", "sys", "subprocess", "socket", "urllib"}

JsDangerousPatterns ==
  << Rule({Lit("require") \o WsStar \o Lit("(")}, "require() is not allowed"),
     Rule({Lit("import") \o WsPlus \o DotStar \o WsPlus \o Lit("from")},
          "ES6 imports are not allowed"),
     Rule({Lit("process.")}, "Process access is not allowed"),
     Rule({Lit("Buffer.")}, "Buffer access is not allowed"),
     Rule({Lit("global.")}, "Global object access is not allowed"),
     Rule({Lit("eval") \o WsStar \o Lit("(")}, "eval() is not allowed"),
     Rule({Lit("new") \o WsPlus \o Lit("Function") \o WsStar \o Lit("(")},
          "Function constructor is not allowed"),
     Rule({Lit("while") \o WsStar \o Lit("(") \o WsStar \o Lit("true")
             \o WsStar \o Lit(")")}, "Infinite loops are not allowed"),
     Rule({Lit("for") \o WsStar \o Lit("(") \o WsStar \o Lit(";") \o WsStar
             \o Lit(";") \o WsStar \o Lit(")")}, "Infinite loops are not allowed") >>

JsSuspiciousPatterns ==
  << Rule({Lit("setTimeout") \o WsStar \o Lit("(") \o <<StarNot({","})>>
             \o Lit(",") \o WsStar \o Lit("0") \o WsStar \o Lit(")")},
          "setTimeout with 0 delay may cause performance issues"),
     Rule({Lit("new") \o WsPlus \o Lit("Array") \o WsStar \o Lit("(") \o WsStar
             \o Digits(6) \o WsStar \o Lit(")")}, "Large array allocation detected"),
     Rule({Lit(".repeat") \o WsStar \o Lit("(") \o WsStar \o Digits(4)
             \o WsStar \o Lit(")")}, "Large string repetition detected") >>

PyDangerousPatterns ==
  << Rule({Lit("import") \o WsPlus \o Lit(m) : m \in SysModules},
          "System module imports are not allowed"),
     Rule({Lit("from") \o WsPlus \o Lit(m) : m \in SysModules},
          "System module imports are not allowed"),
     Rule({Lit("open") \o WsStar \o Lit("(")}, "File operations are not allowed"),
     Rule({Lit("with") \o WsPlus \o Lit("open") \o WsStar \o Lit("(")},
          "File operations are not allowed"),
     Rule({Lit("exec") \o WsStar \o Lit("(")}, "exec() is not allowed"),
     Rule({Lit("eval") \o WsStar \o Lit("(")}, "eval() is not allowed"),
     Rule({Lit("__import__") \o WsStar \o Lit("(")}, "__import__() is not allowed"),
     Rule({Lit("while") \o WsPlus \o Lit("True") \o WsStar \o Lit(":")},
          "Infinite loops are not allowed") >>

PySuspiciousPatterns ==
  << Rule({Lit("for") \o WsPlus \o DotStar \o WsPlus \o Lit("in") \o WsPlus
             \o Lit("range") \o WsStar \o Lit("(") \o WsStar \o Digits(6)
             \o WsStar \o Lit(")")}, "Large range iteration detected"),
     Rule({Lit("[") \o WsStar \o DotStar \o WsStar \o Lit("]") \o WsStar
             \o Lit("*") \o WsStar \o Digits(4)}, "Large list multiplication detected"),
     Rule({Lit("'") \o DotStar \o Lit("'") \o WsStar \o Lit("*") \o WsStar
             \o Digits(4)}, "Large string multiplication detected") >>

RECURSIVE CollectMessages(_, _, _, _)

\* a loop that stops at the first rule that matches
CollectMessages_FirstOnly(rules, k, code, acc) ==
  LET matching == {j \in k..Len(rules) : Test(rules[j].re, code)}
  IN IF matching = {} THEN acc
     ELSE Append(acc, rules[CHOOSE j \in matching :
                              \A i \in matching : j <= i].message)

\* for (const { pattern, message } of patterns) if (pattern.test(code)) list.push(message)
CollectMessages(rules, k, code, acc) ==
  IF k > Len(rules) THEN acc
  ELSE CollectMessages(rules, k + 1, code,
         IF Test(rules[k].re, code) THEN Append(acc, rules[k].message) ELSE acc)

\* a result whose isValid also asks for an empty warnings list
ValidationResult_WarningsCount(errors, warnings) ==
  [isValid |-> Len(errors) = 0 /\ Len(warnings) = 0,
   errors |-> errors, warnings |-> warnings]

\* return { isValid: errors.length === 0, errors, warnings }
ValidationResult(errors, warnings) ==
  [isValid |-> Len(errors) = 0, errors |-> errors, warnings |-> warnings]

validateJavaScriptCode(code) ==
  ValidationResult(CollectMessages(JsDangerousPatterns, 1, code, <<>>),
                   CollectMessages(JsSuspiciousPatterns, 1, code, <<>>))

validatePythonCode(code) ==
  ValidationResult(CollectMessages(PyDangerousPatterns, 1, code, <<>>),
                   CollectMessages(PySuspiciousPatterns, 1, code, <<>>))

validateLanguageCode(language, code) ==
  IF language = "javascript" THEN validateJavaScriptCode(code)
  ELSE validatePythonCode(code)

(***************************************************************************)
(* The same functions with the state of the pattern objects written out:   *)
(* every pattern of the tables carries the g flag, so test() reads and     *)
(* writes the object's lastIndex.  A table state is the sequence of the    *)
(* lastIndex values of its patterns.                                       *)
(***************************************************************************)
\* a table built once and shared by the calls: the objects of the call before
NewPatterns_Shared(rules, prev) == prev

\* const dangerousPatterns = [{ pattern: /.../g, message }, ...] inside the
\* function body: every call evaluates the literals again, new objects
NewPatterns(rules, prev) == [k \in 1..Len(rules) |-> 0]

\* the for-of loop over a table whose objects have the lastIndex values idx:
\* the messages pushed and the lastIndex values left behind
CollectFrom(rules, code, idx) ==
  LET hit == [k \in 1..Len(rules) |-> TestGlobal(rules[k].re, code, idx[k])]
      ks == SelectSeq([k \in 1..Len(rules) |-> k], LAMBDA k : hit[k].found)
  IN [list |-> [j \in 1..Len(ks) |-> rules[ks[j]].message],
      idx |-> [k \in 1..Len(rules) |-> hit[k].lastIndex]]

\* validateJavaScriptCode / validatePythonCode, prev the pattern objects of
\* the call before: the result and the pattern objects of this call
ValidateWith(dangerous, suspicious, code, prev) ==
  LET d == CollectFrom(dangerous, code, NewPatterns(dangerous, prev.dangerous))
      w == CollectFrom(suspicious, code, NewPatterns(suspicious, prev.suspicious))
  IN [result |-> ValidationResult(d.list, w.list),
      patterns |-> [dangerous |-> d.idx, suspicious |-> w.idx]]

ValidateLanguage(language, code, prev) ==
  IF language = "javascript"
    THEN ValidateWith(JsDangerousPatterns, JsSuspiciousPatterns, code, prev)
    ELSE ValidateWith(PyDangerousPatterns, PySuspiciousPatterns, code, prev)

(***************************************************************************)
(* Optional parameters: an absent (undefined) parameter is None, a present *)
(* one is Some(value).  language and code are always strings (the zod      *)
(* schema of the tools, the ExecutionOptions interface).                   *)
(***************************************************************************)
None == <<>>

Some(x) == <<x>>

IfTrue(b, x) == IF b THEN <<x>> ELSE <<>>

validateExecutionOptions(o) ==
  LET langErr ==
        IF o.language = "" THEN <<"Language is required">>
        ELSE IF o.language \notin {"javascript", "python"}
          THEN <<"Unsupported language. Only JavaScript and Python are supported">>
        ELSE <<>>
      codeErr ==
        IF o.code = "" THEN <<"Code is required">>
        ELSE IfTrue(Len(o.code) > MAX_CODE_LENGTH,
                    "Code is too long. Maximum length is 50000 characters")
             \o IfTrue(IsBlank(o.code),
                       "Code cannot be empty or contain only whitespace")
      inputErr ==
        IfTrue(o.input # None /\ Len(o.input[1]) > MAX_INPUT_LENGTH,
               "Input is too long. Maximum length is 10000 characters")
      timeoutErr ==
        IF o.timeout = None THEN <<>>
        ELSE IF o.timeout[1] < 0 THEN <<"Timeout must be a non-negative number">>
        ELSE IfTrue(o.timeout[1] > 60000, "Timeout cannot exceed 60 seconds")
      timeoutWarn ==
        IfTrue(o.timeout # None /\ o.timeout[1] >= 0 /\ o.timeout[1] <= 60000
                 /\ o.timeout[1] > 30000,
               "Long timeout values may impact performance")
      memErr ==
        IF o.memoryLimit = None THEN <<>>
        ELSE IF o.memoryLimit[1] < 0
          THEN <<"Memory limit must be a non-negative number">>
        ELSE IfTrue(o.memoryLimit[1] > 512, "Memory limit cannot exceed 512 MB")
      memWarn ==
        IfTrue(o.memoryLimit # None /\ o.memoryLimit[1] >= 0
                 /\ o.memoryLimit[1] <= 512 /\ o.memoryLimit[1] > 256,
               "High memory limits may impact performance")
      netWarn ==
        IfTrue(o.enableNetworking = Some(TRUE),
               "Network access is enabled - use with caution")
  IN ValidationResult(langErr \o codeErr \o inputErr \o timeoutErr \o memErr,
                      timeoutWarn \o memWarn \o netWarn)

(***************************************************************************)
(* JavaScript values that user code can hand to the host (a thrown value's *)
(* message and stack, the captured output): tagged, so that a string and a *)
(* non-string are told apart as typeof / method lookup does.               *)
(***************************************************************************)
Str(s) == [t |-> "string", s |-> s, circular |-> FALSE]

Undef == [t |-> "undefined", s |-> "", circular |-> FALSE]

Num == [t |-> "number", s |-> "5", circular |-> FALSE]

Arr == [t |-> "array", s |-> "", circular |-> FALSE]

CircArr == [t |-> "array", s |-> "", circular |-> TRUE]

\* the array [o] whose element refers back to it: o[key] is the array
CircVia(key) == [t |-> "array", s |-> key, circular |-> TRUE]

\* the message of the TypeError JSON.stringify throws on a circular array
CircularStructureMessage(v) ==
  "Converting circular structure to JSON\n    --> starting at object with constructor 'Array'\n"
  \o (IF v.s = "" THEN "    --- index 0 closes the circle"
      ELSE "    |     index 0 -> object with constructor 'Object'\n    --- property '"
           \o v.s \o "' closes the circle")

\* !v
Falsy(v) == v.t = "undefined" \/ (v.t = "string" /\ v.s = "")

\* v.includes(sub): a TypeError unless v is a string or an array
HasIncludes(v) == v.t \in {"string", "array"}

Includes(v, sub) == v.t = "string" /\ Contains(v.s, sub)

\* a || b
OrElse(v, d) == IF Falsy(v) THEN d ELSE v

NumOf(text) == [t |-> "number", s |-> text, circular |-> FALSE]

Null == [t |-> "null", s |-> "null", circular |-> FALSE]

\* JSON.stringify of a string
JsonEscape(c) ==
  IF c = "\"" THEN "\\\"" ELSE IF c = "\\" THEN "\\\\"
  ELSE IF c = "\n" THEN "\\n" ELSE c

JsonString(str) ==
  "\"" \o Join([i \in 1..Len(str) |-> JsonEscape(CharAt(str, i))], "") \o "\""

\* JSON.stringify of a value that is not undefined
JsonOfValue(v) ==
  IF v.t = "string" THEN JsonString(v.s)
  ELSE IF v.t = "array" THEN "[]"
  ELSE v.s

\* JSON.parse of the text of a string, the inverse of JsonEscape
RECURSIVE JsonUnescape(_, _)
JsonUnescape(text, i) ==
  IF i > Len(text) THEN ""
  ELSE IF CharAt(text, i) = "\\"
    THEN (IF CharAt(text, i + 1) = "n" THEN "\n" ELSE CharAt(text, i + 1))
         \o JsonUnescape(text, i + 2)
  ELSE CharAt(text, i) \o JsonUnescape(text, i + 1)

\* JSON.parse of the serialization of null, of a number, of a string or of
\* an array
JsonParseValue(text) ==
  IF text = "null" THEN Null
  ELSE IF text = "[]" THEN Arr
  ELSE IF CharAt(text, 1) = "\""
    THEN Str(JsonUnescape(SubSeq(text, 2, Len(text) - 1), 1))
  ELSE NumOf(text)

\* OutputSanitizer.sanitizeReturnValue on these values: null and undefined
\* are returned as they are, any other value goes through JSON
SanitizedReturnValue(v) ==
  IF v.t \in {"null", "undefined"} THEN v ELSE JsonParseValue(JsonOfValue(v))

\* a member of a serialized object: JSON.stringify omits an undefined value
JsonMember(key, v) ==
  IF v.t = "undefined" THEN <<>>
  ELSE <<JsonString(key) \o ":" \o JsonOfValue(v)>>

\* estimateMemoryUsage(result) of both executors on the object
\* {output, errorOutput, returnValue} a run produced
estimateMemoryUsage(result) ==
  2 * Len("{" \o Join(JsonMember("output", result.output)
                        \o JsonMember("errorOutput", result.errorOutput)
                        \o JsonMember("returnValue", result.returnValue), ",")
          \o "}")

(***************************************************************************)
(* ExecutionResult (executors/base.ts) and the outcome serialized to the   *)
(* caller.  type is "" on success; memoryUsed is None when the result has  *)
(* no such field; executionTime, line and language are not modelled.       *)
(***************************************************************************)
Success(output, errorOutput) ==
  [success |-> TRUE, type |-> "", message |-> Undef, details |-> Undef,
   output |-> output, errorOutput |-> errorOutput, stack |-> Undef,
   errors |-> <<>>, warnings |-> <<>>, returnValue |-> Undef,
   memoryUsed |-> None]

Failure(type, message, details, stack) ==
  [success |-> FALSE, type |-> type, message |-> message, details |-> details,
   output |-> Undef, errorOutput |-> Undef, stack |-> stack,
   errors |-> <<>>, warnings |-> <<>>, returnValue |-> Undef,
   memoryUsed |-> None]

(***************************************************************************)
(* BaseExecutor and the two executors' blockedPatterns                     *)
(***************************************************************************)
DefaultMaxExecutionTime == 10000

JsBlockedPatterns ==
  << {Lit("require") \o WsStar \o Lit("(")},
     {Lit("import") \o WsPlus \o DotStar \o WsPlus \o Lit("from")},
     {Lit("process.")},
     {Lit("Buffer.")},
     {Lit("global.")},
     {Lit("eval") \o WsStar \o Lit("(")},
     {Lit("new") \o WsPlus \o Lit("Function") \o WsStar \o Lit("(")},
     {Lit("while") \o WsStar \o Lit("(") \o WsStar \o Lit("true") \o WsStar
        \o Lit(")") \o WsStar \o Lit("{")},
     {Lit("for") \o WsStar \o Lit("(") \o WsStar \o Lit(";") \o WsStar \o Lit(";")
        \o WsStar \o Lit(")") \o WsStar \o Lit("{")},
     {Lit("setInterval"), Lit("setTimeout")} >>

PyBlockedModules == SysModules \cup {"urllib2", "urllib3"}

PyBlockedPatterns ==
  << {Lit("import") \o WsPlus \o Lit(m) \o <<Wb>> : m \in PyBlockedModules},
     {Lit("from") \o WsPlus \o Lit(m) \o <<Wb>> : m \in PyBlockedModules},
     {Lit("open") \o WsStar \o Lit("(")},
     {Lit("with") \o WsPlus \o Lit("open") \o WsStar \o Lit("(")},
     {Lit("__import__") \o WsStar \o Lit("(")},
     {Lit("while") \o WsPlus \o Lit("True") \o WsStar \o Lit(":") \o WsStar \o <<Eos>>},
     {Lit("for") \o WsPlus \o DotStar \o WsPlus \o Lit("in") \o WsPlus
        \o Lit("range") \o WsStar \o Lit("(") \o WsStar \o Digits(7)
        \o WsStar \o Lit(")")} >>

blockedPatterns(language) ==
  IF language = "javascript" THEN JsBlockedPatterns ELSE PyBlockedPatterns

MatchesBlocked(language, code) ==
  \E k \in 1..Len(blockedPatterns(language)) : Test(blockedPatterns(language)[k], code)

\* a validateInput that refuses a memory limit above 256 MB
validateInput_LimitEnforced(language, o) ==
  IF o.code = "" \/ IsBlank(o.code)
    THEN Some(Failure("compilation_error", Str("Code cannot be empty"),
                      Str("Please provide valid code to execute"), Undef))
  ELSE IF o.timeout # None /\ o.timeout[1] # 0
          /\ (o.timeout[1] < 0 \/ o.timeout[1] > 60000)
    THEN Some(Failure("compilation_error", Str("Invalid timeout value"),
                      Str("Timeout must be between 0 and 60000 milliseconds"), Undef))
  ELSE IF o.memoryLimit # None /\ o.memoryLimit[1] # 0
          /\ (o.memoryLimit[1] < 0 \/ o.memoryLimit[1] > 256)
    THEN Some(Failure("compilation_error", Str("Invalid memory limit"),
                      Str("Memory limit must be between 0 and 512 MB"), Undef))
  ELSE IF MatchesBlocked(language, o.code)
    THEN Some(Failure("security_error",
                      Str("Code execution blocked: Contains prohibited operations"),
                      Str("Your code contains operations that are not allowed for security reasons"),
                      Undef))
  ELSE None

\* BaseExecutor.validateInput: None for null, Some(result) for a rejection
validateInput(language, o) ==
  IF o.code = "" \/ IsBlank(o.code)
    THEN Some(Failure("compilation_error", Str("Code cannot be empty"),
                      Str("Please provide valid code to execute"), Undef))
  ELSE IF o.timeout # None /\ o.timeout[1] # 0
          /\ (o.timeout[1] < 0 \/ o.timeout[1] > 60000)
    THEN Some(Failure("compilation_error", Str("Invalid timeout value"),
                      Str("Timeout must be between 0 and 60000 milliseconds"), Undef))
  ELSE IF o.memoryLimit # None /\ o.memoryLimit[1] # 0
          /\ (o.memoryLimit[1] < 0 \/ o.memoryLimit[1] > 512)
    THEN Some(Failure("compilation_error", Str("Invalid memory limit"),
                      Str("Memory limit must be between 0 and 512 MB"), Undef))
  ELSE IF MatchesBlocked(language, o.code)
    THEN Some(Failure("security_error",
                      Str("Code execution blocked: Contains prohibited operations"),
                      Str("Your code contains operations that are not allowed for security reasons"),
                      Undef))
  ELSE None

\* const timeout = options.timeout || this.config.maxExecutionTime
EffectiveTimeout(o) ==
  IF o.timeout = None \/ o.timeout[1] = 0 THEN DefaultMaxExecutionTime
  ELSE o.timeout[1]

TimeoutFailure(timeout) ==
  Failure("timeout_error",
          Str("Code execution timed out after " \o ToString(timeout) \o "ms"),
          Undef, Undef)

(***************************************************************************)
(* Errors travelling through promises: message and stack are JavaScript    *)
(* values (user code can throw any object), code is the system error code. *)
(***************************************************************************)
Err(message, stack, code) == [message |-> message, stack |-> stack, code |-> code]

\* new Error(text), TypeError raised by the host on a bad property access
NewError(text) == Err(Str(text), Str("Error: " \o text \o "\n    at host"), "")

Resolved(v) == [st |-> "resolved", val |-> v, err |-> NewError("")]

Rejected(e) == [st |-> "rejected", val |-> Success(Undef, Undef), err |-> e]

(***************************************************************************)
(* JavaScriptExecutor                                                      *)
(* What the submitted program does in the VM is the environment's choice:  *)
(*   "return": the wrapper returns {output, errorOutput, returnValue};     *)
(*             output is __output.join(), a string unless the program      *)
(*             replaced __output; returnValue may be circular;             *)
(*   "throw":  the program throws a value with the given message, stack;   *)
(*   "loop":   the program is still running when the VM deadline fires.    *)
(***************************************************************************)
JsReturn(output, circular) ==
  [k |-> "return", output |-> output, circular |-> circular,
   message |-> Undef, stack |-> Undef,
   returnValue |-> IF circular THEN CircArr ELSE Undef]

\* the wrapper returns with the given value of __returnValue
JsReturnValue(output, value) ==
  [JsReturn(output, value.circular) EXCEPT !.returnValue = value]

JsThrow(message, stack) ==
  [k |-> "throw", output |-> Undef, circular |-> FALSE,
   message |-> message, stack |-> stack, returnValue |-> Undef]

JsLoop ==
  [k |-> "loop", output |-> Undef, circular |-> FALSE,
   message |-> Undef, stack |-> Undef, returnValue |-> Undef]

\* JavaScriptExecutor.sanitizeStackTrace on a string
JsSanitizeStackText(text) ==
  Join(Take(SelectSeq(Split(text, "\n"),
                      LAMBDA line : ~Contains(line, "vm2")
                                    /\ ~Contains(line, "node_modules")), 10), "\n")

\* the vmPromise of executeWithNodeVM
vmPromise(b) ==
  IF b.k = "return"
    THEN Resolved([Success(b.output, Str("")) EXCEPT !.returnValue = b.returnValue])
  ELSE IF b.k = "loop" THEN Rejected(NewError("TIMEOUT"))
  ELSE IF ~HasIncludes(b.message)
    THEN Rejected(NewError("Cannot read properties of undefined (reading 'includes')"))
  ELSE IF Includes(b.message, "Script execution timed out")
    THEN Rejected(NewError("TIMEOUT"))
  ELSE Rejected(Err(b.message, b.stack, ""))

\* the catch block of executeWithNodeVM: a result, or a TypeError thrown by it
JsCatch(e, timeout) ==
  IF ~(e.message.t = "string" /\ e.message.s = "TIMEOUT") /\ ~HasIncludes(e.message)
    THEN Rejected(NewError("Cannot read properties of undefined (reading 'includes')"))
  ELSE IF (e.message.t = "string" /\ e.message.s = "TIMEOUT")
          \/ Includes(e.message, "Script execution timed out")
    THEN Resolved(TimeoutFailure(timeout))
  ELSE IF ~Falsy(e.stack) /\ e.stack.t # "string"
    THEN Rejected(NewError("stack.split is not a function"))
  ELSE Resolved(Failure("runtime_error",
                        OrElse(e.message, Str("Runtime error occurred")), Undef,
                        IF Falsy(e.stack) THEN Str("")
                        ELSE Str(JsSanitizeStackText(e.stack.s))))

\* executeWithNodeVM: the settled promise it returns
executeWithNodeVM(b, timeout) ==
  LET p == vmPromise(b)
  IN IF p.st = "rejected" THEN JsCatch(p.err, timeout)
     ELSE IF b.circular
       THEN JsCatch(NewError(CircularStructureMessage(b.returnValue)), timeout)
     ELSE Resolved([Success(OrElse(p.val.output, Str("")),
                            OrElse(p.val.errorOutput, Str("")))
                      EXCEPT !.returnValue = p.val.returnValue,
                             !.memoryUsed = Some(estimateMemoryUsage(p.val))])

(***************************************************************************)
(* PythonExecutor                                                          *)
(***************************************************************************)
PySanitizeStackText(text) ==
  Join(Take(SelectSeq(Split(text, "\n"),
                      LAMBDA line : ~Contains(line, "/tmp")
                                    /\ ~Contains(line, "node_modules")), 10), "\n")

\* PyCatch without the test error.message === 'TIMEOUT'
PyCatch_NoTimeoutTest(e, timeout) ==
  IF e.code = "ENOENT" \/ Includes(e.message, "No Python executable found")
    THEN Failure("runtime_error",
                 Str("Python executable not found. Please ensure Python is installed and available in your PATH."),
                 e.message, Undef)
  ELSE IF Includes(e.message, "SyntaxError")
    THEN Failure("compilation_error", Str("Syntax error in Python code"),
                 e.message, Undef)
  ELSE Failure("runtime_error", OrElse(e.message, Str("Runtime error occurred")),
               Undef, Str(""))

\* createSecurePythonWrapper: the line `user_code = """..."""` of the script,
\* with every backslash of the code doubled and every """ given a backslash
userCodeLiteral(userCode) ==
  "\"\"\""
  \o Pipe(ReplaceAll({Lit("\\")}, userCode, "\\\\"),
          LAMBDA escaped : ReplaceAll({Lit("\"\"\"")}, escaped, "\\\"\"\""))
  \o "\"\"\""

\* the index at which Python ends the triple-quoted literal that is open at
\* index i of text (a backslash escapes the character after it); 0 if none
RECURSIVE ClosingQuotes(_, _)
ClosingQuotes(text, i) ==
  IF i + 2 > Len(text) THEN 0
  ELSE IF CharAt(text, i) = "\\" THEN ClosingQuotes(text, i + 2)
  ELSE IF SubSeq(text, i, i + 2) = "\"\"\"" THEN i
  ELSE ClosingQuotes(text, i + 1)

\* what follows the literal on its line: nothing when the wrapper embeds the
\* code intact
AfterUserCode(userCode) ==
  LET text == userCodeLiteral(userCode)
      close == ClosingQuotes(text, 4)
  IN IF close = 0 THEN "<open>" ELSE SubSeq(text, close + 3, Len(text))

\* the catch block of PythonExecutor.execute
PyCatch(e, timeout) ==
  IF e.message.s = "TIMEOUT" THEN TimeoutFailure(timeout)
  ELSE IF e.code = "ENOENT" \/ Includes(e.message, "No Python executable found")
    THEN Failure("runtime_error",
                 Str("Python executable not found. Please ensure Python is installed and available in your PATH."),
                 e.message, Undef)
  ELSE IF Includes(e.message, "SyntaxError")
    THEN Failure("compilation_error", Str("Syntax error in Python code"),
                 e.message, Undef)
  ELSE IF Includes(e.message, "ImportError") \/ Includes(e.message, "ModuleNotFoundError")
    THEN Failure("security_error",
                 Str("Code execution blocked: Module import not permitted"),
                 Str("Only safe, pre-approved modules are allowed"), Undef)
  ELSE Failure("runtime_error", OrElse(e.message, Str("Runtime error occurred")),
               Undef,
               IF Falsy(e.stack) THEN Str("") ELSE Str(PySanitizeStackText(e.stack.s)))

\* the 'close' handler's settlement for exit code and captured streams
PyCloseSettle(exitCode, stdout, stderr) ==
  IF exitCode = 0
    THEN Resolved([Success(
           Str(Trim(IF Contains(stdout, "STDOUT:")
                      THEN Split(stdout, "STDOUT:")[2] ELSE "")),
           Str(Trim(IF Contains(stderr, "STDERR:")
                      THEN Join(Tail(Split(stderr, "STDERR:")), "STDERR:") ELSE "")))
                     EXCEPT !.returnValue = Null])
  ELSE Rejected(NewError(IF stderr = "" THEN "Python execution failed" ELSE stderr))

\* PythonExecutor.execute after the race of createTimeoutPromise has settled
PyExecuteSettled(raced, timeout) ==
  IF raced.st = "resolved"
    THEN Resolved([Success(OrElse(raced.val.output, Str("")),
                           OrElse(raced.val.errorOutput, Str("")))
                     EXCEPT !.returnValue = raced.val.returnValue,
                            !.memoryUsed = Some(estimateMemoryUsage(raced.val))])
    ELSE Resolved(PyCatch(raced.err, timeout))

\* the candidates of findPythonExecutable in the order it tries them
pythonCandidates ==
  << "/usr/bin/python3", "/usr/local/bin/python3", "/usr/bin/python",
     "/usr/local/bin/python", "python3", "python", "python3.12", "python3.11",
     "python3.10", "python3.9" >>

\* a findPythonExecutable that keeps the last candidate that works
findPythonExecutable_LastWorking(works) ==
  LET at == {k \in 1..Len(pythonCandidates) : pythonCandidates[k] \in works}
  IN IF at = {} THEN None
     ELSE Some(pythonCandidates[CHOOSE k \in at : \A j \in at : j <= k])

\* the for loop of findPythonExecutable from candidate k on: the first
\* candidate whose probe succeeds, None when the loop ends (the throw)
RECURSIVE ProbeFrom(_, _)
ProbeFrom(k, works) ==
  IF k > Len(pythonCandidates) THEN None
  ELSE IF pythonCandidates[k] \in works THEN Some(pythonCandidates[k])
  ELSE ProbeFrom(k + 1, works)

findPythonExecutable(works) == ProbeFrom(1, works)

\* the executable of a run before findPythonExecutable has returned
NotProbed == [probed |-> FALSE, works |-> {}, used |-> None]

\* machines: no Python at all, Python on the PATH only, an installation under
\* /usr/local next to an old versioned one
WorkingSets ==
  { {}, {"python3", "python"}, {"/usr/local/bin/python3", "python3.9"} }

ConcWorkingSets == { {}, {"python3"} }

NoPythonError ==
  NewError("No Python executable found. Please ensure Python is installed and available in your PATH. Tried: /usr/bin/python3, /usr/local/bin/python3, /usr/bin/python, /usr/local/bin/python, python3, python, python3.12, python3.11, python3.10, python3.9")

(***************************************************************************)
(* Requests.  tool is "execute_code", "execute_code_with_variables", or    *)
(* "direct" for a caller that invokes executor.execute itself (as the test *)
(* suites do).  variables: absent, an object (or a JSON string that        *)
(* parses), or a JSON string that does not parse.                          *)
(***************************************************************************)
Request(tool, language, code, variables, timeout, memoryLimit) ==
  [tool |-> tool, language |-> language, code |-> code, variables |-> variables,
   input |-> None, timeout |-> timeout, memoryLimit |-> memoryLimit,
   enableNetworking |-> None]

NoVariables == [k |-> "none", vars |-> <<>>]

Variables(vars) == [k |-> "object", vars |-> vars]

BadJsonVariables == [k |-> "badjson", vars |-> <<>>]

\* a JSON value: a string, number, boolean or null with its JSON text in s,
\* an array of values, or an object of keys and values
Json(t, text, keys, items) == [t |-> t, s |-> text, keys |-> keys, items |-> items]

JArr(items) == Json("array", "", <<>>, items)

JObj(keys, items) == Json("object", "", keys, items)

\* an entry of the variables object
VarOf(name, value) ==
  [name |-> name, t |-> value.t, s |-> value.s, keys |-> value.keys,
   items |-> value.items]

Var(name, t, text) == VarOf(name, Json(t, text, <<>>, <<>>))

\* JSON.stringify of a variable's value
RECURSIVE JsonStringify(_)
JsonStringify(v) ==
  IF v.t = "string" THEN JsonString(v.s)
  ELSE IF v.t = "array"
    THEN "[" \o Join([i \in 1..Len(v.items) |-> JsonStringify(v.items[i])], ",")
         \o "]"
  ELSE IF v.t = "object"
    THEN "{" \o Join([i \in 1..Len(v.items) |->
                        JsonString(v.keys[i]) \o ":"
                        \o JsonStringify(v.items[i])], ",") \o "}"
  ELSE v.s

\* /^[a-zA-Z_$][a-zA-Z0-9_$]*$/
IdentifierRe ==
  {<<Bos, OneOf(Letter \cup {"_", "$"}), Star(WordCh \cup {"$"}), Eos>>}

JsDeclaration(v) == "const " \o v.name \o " = " \o JsonStringify(v) \o ";"

\* the object branch: /true/g, /false/g and /null/g replaced in the JSON text
pythonDict(v) ==
  ReplaceAll({Lit("null")},
             Pipe(JsonStringify(v),
                  LAMBDA json : ReplaceAll({Lit("false")},
                                           ReplaceAll({Lit("true")}, json, "True"),
                                           "False")),
             "None")

PyDeclaration(v) ==
  v.name \o " = " \o (IF v.t = "null" THEN "None"
                      ELSE IF v.t = "object" THEN pythonDict(v)
                      ELSE JsonStringify(v))

\* processedCode of execute_code_with_variables
ProcessedCode(rq) ==
  IF rq.tool # "execute_code_with_variables" \/ Len(rq.variables.vars) = 0
    THEN rq.code
  ELSE Join([i \in 1..Len(rq.variables.vars) |->
               IF rq.language = "javascript" THEN JsDeclaration(rq.variables.vars[i])
               ELSE PyDeclaration(rq.variables.vars[i])], "\n")
       \o "\n\n" \o rq.code

(***************************************************************************)
(* Process configuration (stdio.ts defaultConfig) and the normalisers      *)
(***************************************************************************)
ConfigMaxExecutionTime == 10000

ConfigMaxMemoryUsage == 128

TimeoutMinimum == 100

TimeoutMaximum == 60000

\* TimeoutValidator.validateTimeout(timeout || config.maxExecutionTime),
\* config.maxExecutionTime when it throws, in a process whose
\* config.maxExecutionTime is maxExecutionTime
NormalizeTimeoutWith(timeout, maxExecutionTime) ==
  LET t == IF timeout = None \/ timeout[1] = 0 THEN maxExecutionTime
           ELSE timeout[1]
  IN IF t < TimeoutMinimum \/ t > TimeoutMaximum THEN maxExecutionTime ELSE t

\* the process with MAX_EXECUTION_TIME unset
NormalizeTimeout(timeout) == NormalizeTimeoutWith(timeout, ConfigMaxExecutionTime)

\* MemoryMonitor.validateMemoryLimit(memoryLimit || config.maxMemoryUsage) in MB,
\* config.maxMemoryUsage when it throws
NormalizeMemoryLimit(memoryLimit) ==
  LET m == IF memoryLimit = None \/ memoryLimit[1] = 0 THEN ConfigMaxMemoryUsage
           ELSE memoryLimit[1]
  IN IF m < 0 \/ m > 512 THEN ConfigMaxMemoryUsage ELSE m

ExecutionOptions(code, timeout, memoryLimit) ==
  [code |-> code, timeout |-> timeout, memoryLimit |-> memoryLimit]

HandlerFailure(type, message, errors, warnings) ==
  [Failure(type, Str(message), Undef, Undef) EXCEPT
     !.errors = errors, !.warnings = warnings]

\* HandlerReject without the check of languageValidation.isValid
HandlerReject_NoLanguageCheck(rq) ==
  LET code == ProcessedCode(rq)
      validation ==
        validateExecutionOptions([language |-> rq.language, code |-> code,
                                  input |-> rq.input, timeout |-> rq.timeout,
                                  memoryLimit |-> rq.memoryLimit,
                                  enableNetworking |-> rq.enableNetworking])
  IN IF rq.language = "" \/ rq.code = ""
       THEN Some(HandlerFailure("validation_error",
              "Missing required parameters: language and code are required",
              <<>>, <<>>))
     ELSE IF rq.tool = "execute_code_with_variables" /\ rq.variables.k = "badjson"
       THEN Some(HandlerFailure("validation_error",
              "Invalid variables JSON: Unexpected token", <<>>, <<>>))
     ELSE IF ~validation.isValid
       THEN Some(HandlerFailure("validation_error", "Input validation failed",
                                validation.errors, validation.warnings))
     ELSE None

\* The handler from its entry to the call of executor.execute: the outcome it
\* returns before that call, or None when it goes on to the executor.
HandlerReject(rq) ==
  LET code == ProcessedCode(rq)
      validation ==
        validateExecutionOptions([language |-> rq.language, code |-> code,
                                  input |-> rq.input, timeout |-> rq.timeout,
                                  memoryLimit |-> rq.memoryLimit,
                                  enableNetworking |-> rq.enableNetworking])
      languageValidation == validateLanguageCode(rq.language, code)
      badNames ==
        {i \in 1..Len(rq.variables.vars) :
           ~Test(IdentifierRe, rq.variables.vars[i].name)}
  IN IF rq.language = "" \/ rq.code = ""
       THEN Some(HandlerFailure("validation_error",
              "Missing required parameters: language and code are required",
              <<>>, <<>>))
     ELSE IF rq.tool = "execute_code_with_variables" /\ rq.variables.k = "badjson"
       THEN Some(HandlerFailure("validation_error",
              "Invalid variables JSON: Unexpected token", <<>>, <<>>))
     ELSE IF rq.tool = "execute_code_with_variables" /\ badNames # {}
       THEN Some(HandlerFailure("validation_error",
              "Invalid variable name: '"
                \o rq.variables.vars[CHOOSE i \in badNames :
                                       \A j \in badNames : i <= j].name
                \o "'. Variable names must be valid identifiers.", <<>>, <<>>))
     ELSE IF ~validation.isValid
       THEN Some(HandlerFailure("validation_error", "Input validation failed",
                                validation.errors, validation.warnings))
     ELSE IF ~languageValidation.isValid
       THEN Some(HandlerFailure("security_error", "Code validation failed",
                                languageValidation.errors,
                                languageValidation.warnings))
     ELSE None

\* executionOptions built from the code without the declarations
HandlerOptions_RawCode(rq) ==
  ExecutionOptions(rq.code, Some(NormalizeTimeout(rq.timeout)),
                   Some(NormalizeMemoryLimit(rq.memoryLimit)))

\* the executionOptions the handler hands to executor.execute
HandlerOptions(rq) ==
  ExecutionOptions(ProcessedCode(rq), Some(NormalizeTimeout(rq.timeout)),
                   Some(NormalizeMemoryLimit(rq.memoryLimit)))

(***************************************************************************)
(* OutputSanitizer and the handler after the executor.  The handler       *)
(* records in `sanitized` that the sanitizing block ran to its end.        *)
(***************************************************************************)
PathRes ==
  { <<Ch("/"), OneOf(Letter), Ch(":"), OneOf({"\\", "/"})>>,
    Lit("/home/"), Lit("/Users/") }

IpRe ==
  { <<Between(Digit, 1, 3), Ch("."), Between(Digit, 1, 3), Ch("."),
      Between(Digit, 1, 3), Ch("."), Between(Digit, 1, 3)>> }

UrlRe == {Lit("http://"), Lit("https://")}

validateOutputSafety(output) ==
  LET issues ==
        IfTrue(Contains(output, "password") \/ Contains(output, "secret")
                 \/ Contains(output, "token"),
               "Output may contain sensitive information")
        \o IfTrue(Test(PathRes, output), "Output contains file system paths")
        \o IfTrue(Test(IpRe, output), "Output may contain IP addresses")
        \o IfTrue(Test(UrlRe, output), "Output contains URLs")
  IN [safe |-> Len(issues) = 0, issues |-> issues]

\* what the programs of the model do when they run: the ways a script ends
\* in the VM, and the ways the Python child exits
JsBehaviours ==
  { JsReturn(o, c) : o \in {Str("hi"), Str(""), Str("token /home/u"), Num},
                     c \in BOOLEAN }
  \cup { JsThrow(m, st) :
           m \in {Str("boom"), Str(""), Str("TIMEOUT"),
                  Str("Script execution timed out after 5ms"),
                  Str("out of memory"), Str("SyntaxError: bad token"),
                  Undef, Num, Arr, CircArr, CircVia("/home/alice")},
           st \in {Str("Error: boom\n    at f (node_modules/x.js:1:1)\n    at g"),
                   Undef, Num} }
  \cup { JsLoop }

Exit(exitCode, stdout, stderr) ==
  [exitCode |-> exitCode, stdout |-> stdout, stderr |-> stderr]

PyExits ==
  { Exit(0, "STDOUT: hi\n", ""), Exit(0, "", "STDERR: warn\n"),
    Exit(1, "", "STDERR: boom\n"), Exit(1, "", ""),
    Exit(1, "", "STDERR: SyntaxError: invalid syntax (<string>, line 3)\n"),
    Exit(1, "", "STDERR: ImportError\n"),
    Exit(1, "", "STDERR: Import of module 'shutil' is not allowed\n") }

ConcJsBehaviours ==
  { JsReturn(Str("hi"), FALSE), JsReturn(Num, FALSE), JsLoop,
    JsThrow(Str("boom"), Num), JsThrow(CircArr, Undef) }

ConcPyExits == { Exit(0, "STDOUT: hi\n", ""), Exit(1, "", "STDERR: boom\n") }

\* 10 * 1024 * 1024
MAX_OUTPUT_SIZE == 10485760

MAX_LINES == 10000

SENSITIVE_PATTERNS ==
  << {LitI("password") \o <<OneOf({"=", ":"})>> \o WsStar \o <<PlusNot(Ws)>>},
     {LitI("api") \o <<Between({"_", "-"}, 0, 1)>> \o LitI("key")
        \o <<OneOf({"=", ":"})>> \o WsStar \o <<PlusNot(Ws)>>},
     {LitI("secret") \o <<OneOf({"=", ":"})>> \o WsStar \o <<PlusNot(Ws)>>},
     {LitI("token") \o <<OneOf({"=", ":"})>> \o WsStar \o <<PlusNot(Ws)>>},
     {LitI("auth") \o <<OneOf({"=", ":"})>> \o WsStar \o <<PlusNot(Ws)>>},
     {LitI("bearer") \o WsPlus \o <<PlusNot(Ws)>>},
     {<<Ch("/"), OneOf(Letter), Ch(":"), OneOf({"\\", "/"})>>},
     {Lit("/home/") \o <<PlusNot(Ws)>>},
     {Lit("/Users/") \o <<PlusNot(Ws)>>} >>

\* for (const pattern of patterns) text = text.replace(pattern, repl)
RECURSIVE ReplaceEach(_, _, _, _)
ReplaceEach(patterns, k, text, repl) ==
  IF k > Len(patterns) THEN text
  ELSE Pipe(ReplaceAll(patterns[k], text, repl),
            LAMBDA t : ReplaceEach(patterns, k + 1, t, repl))

\* OutputSanitizer.sanitizeOutput on a string.  The texts of the model hold
\* no ESC character, so removeAnsiCodes finds nothing to remove in them.
\* The two ceilings are parameters, so that texts at a ceiling can be
\* examined at a reduced scale.
sanitizeOutputWith(output, maxOutputSize, maxLines) ==
  IF output = "" THEN ""
  ELSE
    LET sized == IF Len(output) > maxOutputSize
                   THEN SubSeq(output, 1, maxOutputSize)
                        \o "\n... (output truncated due to size limit)"
                   ELSE output
        limited(lines) ==
          IF Len(lines) > maxLines
            THEN Join(Take(lines, maxLines), "\n")
                 \o "\n... (output truncated due to line limit)"
            ELSE sized
        redacted(text) == ReplaceEach(SENSITIVE_PATTERNS, 1, text, "[REDACTED]")
        crlf(text) == ReplaceAll({Lit("\r\n")}, text, "\n")
        cr(text) == ReplaceAll({Lit("\r")}, text, "\n")
    IN Pipe(Pipe(Pipe(Pipe(Split(sized, "\n"), limited), redacted), crlf), cr)

sanitizeOutput(output) == sanitizeOutputWith(output, MAX_OUTPUT_SIZE, MAX_LINES)

\* the line filter of sanitizeError; sanitizeStackTrace adds two texts
InternalLine(line, more) ==
  \E t \in {"node_modules", "internal/", "vm2/", "pyodide/"} \cup more :
     Contains(line, t)

\* OutputSanitizer.sanitizeError on a string
sanitizeError(error) ==
  IF error = "" THEN ""
  ELSE
    LET paths(text) ==
          ReplaceEach(
            << {<<Ch("/"), OneOf(Letter), Ch(":"), OneOf({"\\", "/"}), StarNot(Ws)>>},
               {Lit("/home/") \o <<StarNot(Ws)>>},
               {Lit("/Users/") \o <<StarNot(Ws)>>} >>, 1, text, "[PATH_REDACTED]")
        modules(text) ==
          ReplaceAll({DotStar \o Lit("node_modules") \o <<StarNot(Ws)>>},
                     text, "[NODE_MODULES]")
        filtered(text) ==
          Join(SelectSeq(Split(text, "\n"), LAMBDA line : ~InternalLine(line, {})),
               "\n")
        limited(text) ==
          IF Len(text) > 2000
            THEN SubSeq(text, 1, 2000) \o "\n... (error message truncated)"
            ELSE text
    IN Pipe(Pipe(Pipe(Pipe(error, paths), modules), filtered), limited)

\* line.replace(/\s+at\s+.*\/([^\/]+:\d+:\d+)/, ' at $1'): the group is what
\* follows the last slash of the match
StackLine(line) ==
  LET m == TestGlobal({WsPlus \o Lit("at") \o WsPlus \o DotStar \o Lit("/")
                         \o <<PlusNot({"/"})>> \o Lit(":") \o Digits(1)
                         \o Lit(":") \o Digits(1)}, line, 0)
      slash == CHOOSE i \in (m.index + 1)..m.lastIndex :
                 /\ CharAt(line, i) = "/"
                 /\ \A j \in (i + 1)..m.lastIndex : CharAt(line, j) # "/"
  IN IF ~m.found THEN line
     ELSE SubSeq(line, 1, m.index) \o " at " \o SubSeq(line, slash + 1, m.lastIndex)
          \o SubSeq(line, m.lastIndex + 1, Len(line))

\* OutputSanitizer.sanitizeStackTrace on a string
sanitizeStackTrace(stack) ==
  IF stack = "" THEN ""
  ELSE LET kept(lines) ==
             Take(SelectSeq(lines,
                    LAMBDA line : ~InternalLine(line,
                                     {"at eval", "at Script.runInContext"})), 10)
           mapped(lines) == [i \in 1..Len(lines) |-> Pipe(lines[i], StackLine)]
       IN Join(Pipe(Pipe(Split(stack, "\n"), kept), mapped), "\n")

\* a sanitizer applied to (v || ''): a TypeError unless the operand is a string
SanitizerThrows(v) == ~Falsy(v) /\ v.t # "string"

\* fn(v || '') for a sanitizer that does not throw on v
ApplySanitizer(fn, text) ==
  IF fn = "sanitizeOutput" THEN sanitizeOutput(text)
  ELSE IF fn = "sanitizeError" THEN sanitizeError(text)
  ELSE sanitizeStackTrace(text)

\* The results the executors of the model return for the behaviours above,
\* the texts of their fields, and the sanitizers' values on these texts,
\* computed once: Sanitized looks a text up here and computes the value of
\* any other text.
SettledResults ==
  { executeWithNodeVM(b, timeout) :
      b \in JsBehaviours \cup ConcJsBehaviours,
      timeout \in {1000, DefaultMaxExecutionTime} }
  \cup { PyExecuteSettled(PyCloseSettle(e.exitCode, e.stdout, e.stderr), 1000) :
           e \in PyExits \cup ConcPyExits }
  \cup { PyExecuteSettled(Rejected(NewError("TIMEOUT")), timeout) :
           timeout \in {1000, DefaultMaxExecutionTime} }

ResultTexts ==
  UNION { {x.val[f].s : f \in {"message", "details", "stack", "output",
                               "errorOutput"}} :
          x \in {y \in SettledResults : y.st = "resolved"} }

SanitizerValues ==
  [fn \in {"sanitizeOutput", "sanitizeError", "sanitizeStackTrace"} |->
     [text \in ResultTexts |-> ApplySanitizer(fn, text)]]

SanitizerValue(values, fn, text) ==
  IF text \in DOMAIN values[fn] THEN values[fn][text]
  ELSE ApplySanitizer(fn, text)

Sanitized(fn, v) ==
  Str(SanitizerValue(SanitizerValues, fn, IF Falsy(v) THEN "" ELSE v.s))

\* a sanitizing block that leaves the result as the executor returned it
SanitizeResult_Skipped(result) == result

\* the fields the try block of the sanitizing phase replaces, in its order,
\* each with the sanitizer applied to it
SanitizedFields(result) ==
  IF result.success
    THEN << <<"output", "sanitizeOutput">>, <<"errorOutput", "sanitizeOutput">>,
            <<"returnValue", "sanitizeReturnValue">> >>
    ELSE << <<"message", "sanitizeError">>, <<"details", "sanitizeError">>,
            <<"stack", "sanitizeStackTrace">> >>

\* the field after its sanitizer; sanitizeReturnValue catches its own faults
SanitizedField(fn, v) ==
  IF fn = "sanitizeReturnValue" THEN SanitizedReturnValue(v) ELSE Sanitized(fn, v)

\* the fields are replaced one after another, and a TypeError thrown by a
\* sanitizer leaves the later fields as the executor returned them
RECURSIVE SanitizeFrom(_, _, _)
SanitizeFrom(result, fields, k) ==
  IF k > Len(fields) THEN result
  ELSE IF fields[k][2] # "sanitizeReturnValue" /\ SanitizerThrows(result[fields[k][1]])
    THEN result
  ELSE SanitizeFrom([result EXCEPT ![fields[k][1]] = SanitizedField(fields[k][2], @)],
                    fields, k + 1)

SanitizeResult(result) == SanitizeFrom(result, SanitizedFields(result), 1)

\* JSON.stringify(result) throws on a circular structure
StringifyThrows(result) ==
  \E f \in {"message", "details", "output", "errorOutput", "stack"} :
     result[f].circular

\* the message of the TypeError it then throws
StringifyError(result) ==
  CircularStructureMessage(
    result[CHOOSE f \in {"message", "details", "output", "errorOutput", "stack"} :
             result[f].circular])

Phases == {"execute", "sanitize", "safety", "assemble"}

\* escaped: the handler's promise rejects (an exception leaves the handler)
HandlerOutcome(outcome, faults, sanitized) ==
  [outcome |-> outcome, faults |-> faults, sanitized |-> sanitized,
   escaped |-> FALSE]

InternalError(tool, text) ==
  Failure("internal_error",
          Str(IF tool = "execute_code"
                THEN "An unexpected error occurred during code execution"
                ELSE "An unexpected error occurred during code execution with variables"),
          Str(text), Undef)

\* a handler without the try/catch around executor.execute and without the
\* outer catch: a rejection of execute leaves the handler
HandlerFinish_NoExecutorCatch(rq, settled) ==
  IF settled.st = "rejected"
    THEN [outcome |-> Failure("<none>", Undef, Undef, Undef), faults |-> {"execute"},
          sanitized |-> FALSE, escaped |-> TRUE]
  ELSE HandlerOutcome(settled.val, {}, TRUE)

\* a handler that turns a fault of the sanitizers into a failure outcome
HandlerReturn_SanitizerFaultFails(rq, val, result) ==
  IF val.success /\ SanitizerThrows(val.output)
    THEN HandlerOutcome(InternalError(rq.tool, "output.split is not a function"),
                        {"sanitize"}, FALSE)
    ELSE HandlerOutcome(result, {}, TRUE)

\* The handler after its sanitizing block, `result` being what the block made
\* of the executor's result `val`: the safety check, whose fault the inner
\* catch swallows, and the serialization, whose fault the outer catch turns
\* into internal_error
HandlerReturn(rq, val, result) ==
  LET sanitizeThrows ==
        IF val.success
          THEN SanitizerThrows(val.output) \/ SanitizerThrows(val.errorOutput)
          ELSE SanitizerThrows(val.message) \/ SanitizerThrows(val.details)
               \/ SanitizerThrows(val.stack)
      checked == result.success /\ ~Falsy(result.output)
      safetyThrows == checked /\ ~HasIncludes(result.output)
      issues ==
        IF checked /\ result.output.t = "string"
          THEN validateOutputSafety(result.output.s).issues ELSE <<>>
      final == IF Len(issues) > 0 THEN [result EXCEPT !.warnings = issues]
               ELSE result
      faults == (IF sanitizeThrows THEN {"sanitize"} ELSE {})
                \cup (IF safetyThrows THEN {"safety"} ELSE {})
  IN IF StringifyThrows(final)
       THEN HandlerOutcome(
              InternalError(rq.tool, StringifyError(final)),
              faults \cup {"assemble"}, ~sanitizeThrows)
       ELSE HandlerOutcome(final, faults, ~sanitizeThrows)

\* The handler from the settlement of executor.execute to its return: the
\* catch of a rejection of execute, or the sanitizing block and what follows
HandlerFinish(rq, settled) ==
  IF settled.st = "rejected"
    THEN HandlerOutcome(
           Failure("executor_error",
                   Str(rq.language \o " executor failed to initialize or execute"),
                   settled.err.message, Undef),
           {"execute"}, FALSE)
  ELSE Pipe(SanitizeResult(settled.val),
            LAMBDA result : HandlerReturn(rq, settled.val, result))

(***************************************************************************)
(* Bounds and input sets                                                   *)
(***************************************************************************)
NumConcurrent == 2

Reqs == 1..NumConcurrent

\* a text longer than MAX_CODE_LENGTH (2^16 characters)
RECURSIVE Doubled(_, _)
Doubled(str, n) == IF n = 0 THEN str ELSE Doubled(str \o str, n - 1)

LongCode == Doubled("x", 16)

\* stands for any program that no static rule matches: what it does when it
\* runs is the environment's choice
AnyProgram == "program();"

JsCodes ==
  { "", "  \n", AnyProgram, "console.log('hi')", "const fs = require('fs');",
    "eval ('1'); process.exit(1)", "while(true);", "while (true) { }",
    "for(;;){}", "setTimeout(function(){}, 10)", "new Array(999999);",
    "throw {message: 'x', stack: 5}", LongCode }

PyCodes ==
  { "", " ", AnyProgram, "print('hi')", "import os\nos.system('ls')",
    "with open('f') as f:\n  pass", "exec('1')", "import osmosis",
    "while True:\n  pass", "while True:", "while 1:\n  pass",
    "for i in range(1000000): pass", "for i in range(10000000): pass",
    "x = 'a' * 10000", LongCode }

Codes(language) == IF language = "javascript" THEN JsCodes ELSE PyCodes

Languages == {"javascript", "python"}

Timeouts == {None, Some(0), Some(50), Some(1000), Some(70000)}

MemoryLimits == {None, Some(600)}

VariableSets ==
  { NoVariables, BadJsonVariables,
    Variables(<<Var("n", "number", "25")>>),
    Variables(<<Var("cmd", "string", "eval(x)"), Var("b", "boolean", "true")>>),
    Variables(<<Var("my-var", "number", "1")>>) }

\* requests with injected variables: a code of exactly the maximum length,
\* a program that prints an injected variable, a value that reads as an import
NearLimitCode == SubSeq(LongCode, 1, MAX_CODE_LENGTH)

InjectionRequests ==
  { Request("execute_code_with_variables", "javascript", NearLimitCode,
            Variables(<<Var("n", "number", "25")>>), None, None),
    Request("execute_code", "javascript", NearLimitCode, NoVariables, None, None),
    Request("execute_code_with_variables", "javascript", "console.log(who)",
            Variables(<<Var("who", "string", "hi")>>), None, None),
    Request("execute_code_with_variables", "python", "print(cmd)",
            Variables(<<Var("cmd", "string", "import os")>>), None, None) }

\* requests whose one variable has a name of each kind: a keyword, a name with
\* '$', a name that starts with a digit, a name with a space
VariableNames == {"class", "$el", "9x", "my var", "total"}

NamingRequests ==
  { Request("execute_code_with_variables", language, AnyProgram,
            Variables(<<Var(name, "number", "1")>>), None, None) :
      language \in Languages, name \in VariableNames }

\* requests whose one variable has a value of each kind
VariableValues ==
  { Json("boolean", "true", <<>>, <<>>), Json("null", "null", <<>>, <<>>),
    Json("string", "null and void", <<>>, <<>>),
    JArr(<<Json("boolean", "true", <<>>, <<>>), Json("null", "null", <<>>, <<>>)>>),
    JObj(<<"ok", "n">>,
         <<Json("boolean", "false", <<>>, <<>>), Json("number", "2", <<>>, <<>>)>>),
    JObj(<<"note">>, <<Json("string", "true story", <<>>, <<>>)>>) }

LiteralRequests ==
  { Request("execute_code_with_variables", language, AnyProgram,
            Variables(<<VarOf("v", value)>>), None, None) :
      language \in Languages, value \in VariableValues }

\* programs with a syntax error: the unterminated string literals of
\* test-runner.test.ts, a regular expression literal that does not compile,
\* a string literal that the end of the code leaves open
JsSyntaxErrorCodes ==
  {"console.log(\"missing quote);", "/Script execution timed out(/"}

PySyntaxErrorCodes == {"print(\"missing quote)", "x = \""}

SyntaxErrorCalls ==
  { Request("direct", "javascript", code, NoVariables, Some(5000), None) :
      code \in JsSyntaxErrorCodes }
  \cup { Request("direct", "python", code, NoVariables, Some(10000), None) :
           code \in PySyntaxErrorCodes }

\* programs that import a module secure_import refuses: one of blocked_modules
\* that no static pattern names, and one on no list
RefusedModules == {"shutil", "numpy"}

ImportRequests ==
  { Request(tool, "python", "import " \o m, NoVariables, None, None) :
      tool \in {"execute_code", "direct"}, m \in RefusedModules }

\* programs that build a string of 10,000,000 characters by repetition: the
\* literal of code-runner.test.ts, a program that prints the length, and the
\* JavaScript form
PyRepetitionCodes ==
  {"data = \"x\" * 10000000", "data = 'a' * 10000000\nprint(len(data))"}

JsRepetitionCodes == {"const s = \"x\".repeat(10000000); console.log(s.length);"}

\* a stdin longer than MAX_INPUT_LENGTH (2^14 characters)
LongInput == Doubled("x", 14)

\* requests at and beyond the limits of the parameters
LimitRequests ==
  { [Request("execute_code", language, "console.log('hi')", NoVariables, timeout,
             memoryLimit) EXCEPT !.input = input] :
      language \in Languages, timeout \in {None, Some(-1), Some(99), Some(100), Some(60000), Some(60001)},
      memoryLimit \in {None, Some(-1), Some(512), Some(513)},
      input \in {None, Some("Alice"), Some(LongInput)} }

\* the Return Value case of the test suite and the same value returned by a
\* return statement
ReturnValueCodes == {"42", "return 42;"}

ReturnValueRequests ==
  { Request(tool, "javascript", code, NoVariables, None, None) :
      tool \in {"execute_code", "direct"}, code \in ReturnValueCodes }

\* wrapCode: the value of (function() { code })() for these codes; only a
\* return statement gives the function a value
FunctionValue(code) ==
  IF IndexOf(code, "return ", 1) = 1
    THEN NumOf(Split(SubSeq(code, 8, Len(code)), ";")[1])
    ELSE Undef

RepetitionRequests ==
  { Request(tool, "python", code, NoVariables, None, None) :
      tool \in {"execute_code", "direct"}, code \in PyRepetitionCodes }
  \cup { Request(tool, "javascript", code, NoVariables, None, None) :
           tool \in {"execute_code", "direct"}, code \in JsRepetitionCodes }

\* every request of the sequential specification
Requests ==
  { Request("execute_code", language, code, NoVariables, timeout, memoryLimit) :
      language \in Languages, code \in JsCodes \cup PyCodes,
      timeout \in Timeouts, memoryLimit \in MemoryLimits }
  \cup
  { Request("execute_code_with_variables", language, code, variables, timeout, None) :
      language \in Languages, code \in JsCodes \cup PyCodes,
      variables \in VariableSets, timeout \in {None, Some(1000), Some(70000)} }
  \cup InjectionRequests \cup NamingRequests \cup LiteralRequests
  \cup {rq \in ImportRequests : rq.tool = "execute_code"}
  \cup {rq \in RepetitionRequests : rq.tool = "execute_code"}
  \cup {rq \in ReturnValueRequests : rq.tool = "execute_code"}
  \cup LimitRequests

\* every direct call of executor.execute of the sequential specification
DirectCalls ==
  { Request("direct", language, code, NoVariables, timeout, memoryLimit) :
      language \in Languages, code \in (JsCodes \cup PyCodes) \ {LongCode},
      timeout \in Timeouts, memoryLimit \in MemoryLimits }
  \cup {rq \in ImportRequests : rq.tool = "direct"} \cup SyntaxErrorCalls
  \cup {rq \in RepetitionRequests : rq.tool = "direct"}
  \cup {rq \in ReturnValueRequests : rq.tool = "direct"}

\* the requests of the concurrent specification
ConcRequests ==
  { Request("execute_code", "javascript", AnyProgram, NoVariables,
            Some(1000), None),
    Request("execute_code", "python", AnyProgram, NoVariables, Some(1000), None),
    Request("execute_code", "python", "import os\nos.system('ls')", NoVariables,
            None, None) }

\* the fault of vm.runInContext when the wrapped code does not compile
JsSyntaxError(message) ==
  JsThrow(Str(message),
          Str("evalmachine.<anonymous>:5\nSyntaxError: " \o message
              \o "\n    at new Script (node:vm:100:7)"))

\* the exit of the wrapper when original_exec raises: str(e) on stderr, exit 1
PyRaised(text) == Exit(1, "", "STDERR: " \o text \o "\n")

\* the exit of the interpreter when the script itself does not compile (the
\* literal of user_code ended before the code did): its own report on stderr
PyScriptSyntaxError ==
  Exit(1, "",
       "  File \"/tmp/python_exec_1_abc.py\", line 66\n"
       \o "SyntaxError: unterminated string literal (detected at line 66)\n")

\* The intrinsics of the host realm that createSandbox hands to every context
\* (Math, Date, JSON, Array, Object, ...): the same objects for every run,
\* writable from user code.  The model follows Array.prototype.join, which the
\* wrapper applies to __output.
NativeRealm == [join |-> "native"]

\* a program that replaces Array.prototype.join by a function answering
\* 'mine' for an array whose first element is 'hi' and the native join otherwise
JoinPatch ==
  "const j = Array.prototype.join;\n"
  \o "Array.prototype.join = function (s) { return this[0] === 'hi' ? 'mine' : j.call(this, s); };"

\* the realm after a run of the code that ended as b
RealmAfter(rlm, code, b) ==
  IF code = JoinPatch /\ b.k = "return" THEN [rlm EXCEPT !.join = "patched"]
  ELSE rlm

\* the run b in the realm: __output.join('\\n') of the wrapper is the join of
\* the realm
InRealm(rlm, b) ==
  IF rlm.join = "patched" /\ b.k = "return" /\ b.output = Str("hi")
    THEN [b EXCEPT !.output = Str("mine")]
  ELSE b

\* what vm.runInContext does with the wrapped code: the programs of JsCodes
\* that reach the VM do what their text says, AnyProgram any of `behaviours`
JsRunOf(code, behaviours) ==
  IF Contains(code, "const class = ")
    THEN {JsSyntaxError("Unexpected token 'class'")}
  ELSE IF code = "console.log(\"missing quote);"
    THEN {JsSyntaxError("Invalid or unexpected token")}
  ELSE IF code = "/Script execution timed out(/"
    THEN {JsSyntaxError("Invalid regular expression: /Script execution timed out(/: Unterminated group")}
  ELSE IF IsBlank(code) \/ code \in {"new Array(999999);", JoinPatch}
    THEN {JsReturn(Str(""), FALSE)}
  ELSE IF code \in {"console.log('hi')", "const who = \"hi\";\n\nconsole.log(who)"}
    THEN {JsReturn(Str("hi"), FALSE)}
  ELSE IF code = "throw {message: 'x', stack: 5}" THEN {JsThrow(Str("x"), Num)}
  ELSE IF code \in JsRepetitionCodes THEN {JsReturn(Str("10000000"), FALSE)}
  ELSE IF code \in ReturnValueCodes
    THEN {JsReturnValue(Str(""), FunctionValue(code))}
  ELSE IF code = "while(true);" THEN {JsLoop}
  ELSE behaviours

\* how the Python child ends: the programs of PyCodes that are spawned end as
\* their text says (an endless loop never ends), AnyProgram in any of `exits`
PyExitsOf(code, exits) ==
  IF AfterUserCode(code) = "\""
    THEN {PyScriptSyntaxError}
  ELSE IF code = "print(\"missing quote)"
    THEN {PyRaised("unterminated string literal (detected at line 1) (<string>, line 1)"),
          PyRaised("EOL while scanning string literal (<string>, line 1)")}
  ELSE IF Contains(code, "class = ") \/ Contains(code, "$el = ")
    THEN {PyRaised("invalid syntax (<string>, line 1)")}
  ELSE IF \E m \in RefusedModules : code = "import " \o m
    THEN {PyRaised("Import of module '" \o Take(Split(code, " "), 2)[2]
                   \o "' is not allowed")}
  ELSE IF Contains(code, " = true\n") \/ Contains(code, " = [true")
    THEN {PyRaised("name 'true' is not defined")}
  ELSE IF code = "print('hi')" THEN {Exit(0, "STDOUT: hi\n", "")}
  ELSE IF code = "data = \"x\" * 10000000" THEN {Exit(0, "", ""), PyRaised("")}
  ELSE IF code = "data = 'a' * 10000000\nprint(len(data))"
    THEN {Exit(0, "STDOUT: 10000000\n", ""), PyRaised("")}
  ELSE IF code \in {"while 1:\n  pass", "while True:\n  pass"} THEN {}
  ELSE IF code \in {"for i in range(1000000): pass", "x = 'a' * 10000"}
    THEN {Exit(0, "", "")}
  ELSE exits

(***************************************************************************)
(* State                                                                   *)
(*   pc[r]        "idle", "awaiting" (the handler or direct caller awaits  *)
(*                executor.execute), "done"                                *)
(*   req[r]       the request                                              *)
(*   xopt[r]      the options handed to executor.execute                   *)
(*   outcome[r]   the outcome returned to the caller                       *)
(*   escaped[r]   the promise returned to the caller rejected              *)
(*   faults[r]    the phases of the handler in which a fault was thrown    *)
(*   sanitized[r] the sanitizing block of the handler completed            *)
(*   phases[r]    the phases the handler has entered, in order (history)   *)
(*   invoked[r]   executor.execute was called                              *)
(*   ctx[r]       a VM context was created and the code run in it          *)
(*   timer[r]     the deadline timer of createTimeoutPromise: "none",      *)
(*                "pending", "fired"                                       *)
(*   apos[r]      position of executePythonSubprocess: "idle", "writeFile",*)
(*                "find", "spawned", "caught"                              *)
(*   file[r]      the temporary script: "none", "exists", "deleted"        *)
(*   child[r]     the child process: "none", "alive", "exited", "failed"   *)
(*                (spawn failed, 'error' not yet emitted), "errored"       *)
(*                ('error' emitted, 'close' to follow), "closed"           *)
(*   isResolved[r] the flag of the 'close' and 'error' handlers            *)
(*   pend[r]      the settlement a handler makes once its unlink returns   *)
(*   subp[r]      the promise of executePythonSubprocess: "pending",       *)
(*                "resolved", "rejected"                                   *)
(*   xres[r]      the settlement of executor.execute (history)             *)
(*   deadline[r]  the deadline fired before the code finished: the VM      *)
(*                stopped the script, or the race timer fired while the    *)
(*                race was pending (history)                               *)
(*   vin, vout    the last call of an InputValidator function and its      *)
(*                result (the validator specification)                     *)
(*   vlog         the calls of validate_code and of the language           *)
(*                validators made so far, with their results (history)     *)
(*   rx           per language, the lastIndex values of the pattern        *)
(*                objects of the latest validator call                     *)
(***************************************************************************)
(***************************************************************************)
(* TimeoutManager (utils/timeout.ts).  A timer of the Node event loop is    *)
(* the handle setTimeout returned together with the id its callback         *)
(* deletes; the manager is its map activeTimeouts and the timers pending    *)
(* in the event loop.                                                       *)
(***************************************************************************)
MaxTimers == 4

TimeoutIds == {"a", "b"}

NodeTimer(handle, id) == [handle |-> handle, id |-> id]

TimeoutManager(active, timers, stopped) ==
  [activeTimeouts |-> active, nodeTimers |-> timers, cleared |-> stopped]

\* clearTimeout(handle) of Node: the timer leaves the event loop
StopTimer(tm, handle) ==
  [tm EXCEPT !.nodeTimers = {t \in @ : t.handle # handle},
             !.cleared = @ \cup {handle}]

\* TimeoutManager.clearTimeout(id)
clearTimeout(tm, id) ==
  IF tm.activeTimeouts[id] # None
    THEN [StopTimer(tm, tm.activeTimeouts[id][1])
            EXCEPT !.activeTimeouts[id] = None]
  ELSE tm

\* a createTimeout that does not clear the timer the id already has
createTimeout_NoClear(tm, id, handle) ==
  [tm EXCEPT !.nodeTimers = @ \cup {NodeTimer(handle, id)},
             !.activeTimeouts[id] = Some(handle)]

\* TimeoutManager.createTimeout(id, callback, delay), `handle` being what
\* setTimeout returns
createTimeout(tm, id, handle) ==
  [clearTimeout(tm, id)
     EXCEPT !.nodeTimers = @ \cup {NodeTimer(handle, id)},
            !.activeTimeouts[id] = Some(handle)]

\* TimeoutManager.clearAllTimeouts()
clearAllTimeouts(tm) ==
  [tm EXCEPT
     !.nodeTimers = {t \in @ : \A id \in TimeoutIds :
                                 tm.activeTimeouts[id] # Some(t.handle)},
     !.cleared = @ \cup {tm.activeTimeouts[id][1] :
                           id \in {i \in TimeoutIds : tm.activeTimeouts[i] # None}},
     !.activeTimeouts = [id \in TimeoutIds |-> None]]

\* the function createTimeout gave to setTimeout, run by the event loop for
\* timer t: this.activeTimeouts.delete(id), then the callback
timeoutCallback(tm, t) ==
  [tm EXCEPT !.nodeTimers = @ \ {t}, !.activeTimeouts[t.id] = None]

VARIABLES pc, req, xopt, outcome, escaped, faults, sanitized, phases, invoked,
          ctx, timer,
          apos, file, child, isResolved, pend, subp, xres, deadline, vin, vout,
          vlog, rx, realm, exe,
          activeTimeouts, nodeTimers, ran, cleared, created

vars == <<pc, req, xopt, outcome, escaped, faults, sanitized, phases, invoked,
          ctx, timer,
          apos, file, child, isResolved, pend, subp, xres, deadline, vin, vout,
          vlog, rx, realm, exe,
          activeTimeouts, nodeTimers, ran, cleared, created>>

handlerVars ==
  <<pc, req, xopt, outcome, escaped, faults, sanitized, phases, invoked, xres,
    deadline, realm>>

runVars ==
  <<pc, req, xopt, outcome, escaped, faults, sanitized, phases, invoked, ctx,
    timer, apos, file, child, isResolved, pend, subp, xres, deadline, realm,
    exe>>

valVars == <<vin, vout>>

seqVars == <<vlog, rx>>

tmVars == <<activeTimeouts, nodeTimers, ran, cleared, created>>

pureVars == <<valVars, seqVars, tmVars>>

pyVars == <<apos, file, child, isResolved, pend, subp, exe>>

NoRequest == Request("none", "", "", NoVariables, None, None)

NoOutcome == Failure("<none>", Undef, Undef, Undef)

Init ==
  /\ pc = [r \in Reqs |-> "idle"]
  /\ req = [r \in Reqs |-> NoRequest]
  /\ xopt = [r \in Reqs |-> ExecutionOptions("", None, None)]
  /\ outcome = [r \in Reqs |-> NoOutcome]
  /\ escaped = [r \in Reqs |-> FALSE]
  /\ faults = [r \in Reqs |-> {}]
  /\ sanitized = [r \in Reqs |-> FALSE]
  /\ phases = [r \in Reqs |-> <<>>]
  /\ invoked = [r \in Reqs |-> FALSE]
  /\ ctx = [r \in Reqs |-> FALSE]
  /\ timer = [r \in Reqs |-> "none"]
  /\ apos = [r \in Reqs |-> "idle"]
  /\ file = [r \in Reqs |-> "none"]
  /\ child = [r \in Reqs |-> "none"]
  /\ isResolved = [r \in Reqs |-> FALSE]
  /\ pend = [r \in Reqs |-> None]
  /\ subp = [r \in Reqs |-> "pending"]
  /\ xres = [r \in Reqs |-> Rejected(NewError("<none>"))]
  /\ deadline = [r \in Reqs |-> FALSE]
  /\ vin = [fn |-> "none", language |-> "", code |-> "", timeout |-> None,
            memoryLimit |-> None, enableNetworking |-> None]
  /\ vout = ValidationResult(<<>>, <<>>)
  /\ vlog = <<>>
  /\ rx = [language \in Languages |->
            IF language = "javascript"
              THEN [dangerous |-> [k \in 1..Len(JsDangerousPatterns) |-> 0],
                    suspicious |-> [k \in 1..Len(JsSuspiciousPatterns) |-> 0]]
              ELSE [dangerous |-> [k \in 1..Len(PyDangerousPatterns) |-> 0],
                    suspicious |-> [k \in 1..Len(PySuspiciousPatterns) |-> 0]]]
  /\ realm = NativeRealm
  /\ exe = [r \in Reqs |-> NotProbed]
  /\ activeTimeouts = [id \in TimeoutIds |-> None]
  /\ nodeTimers = {}
  /\ ran = [h \in 1..MaxTimers |-> 0]
  /\ cleared = {}
  /\ created = 0

\* the phases of the handler up to its call of executor.execute
EnteredExecute == <<"parameters", "language", "execute">>

\* the phases a request rejected by the handler's own checks went through:
\* security_error is the failure of the language validation, which follows
\* the parameter checks
PhasesOfRejection(failure) ==
  IF failure.type = "security_error" THEN <<"parameters", "language">>
  ELSE <<"parameters">>

\* the phases of the handler after executor.execute has settled: the catch
\* of a rejection serializes its own failure at once
PhasesAfter(settled) ==
  IF settled.st = "rejected" THEN <<"assemble">>
  ELSE <<"sanitize", "safety", "assemble">>

\* the options a request hands to executor.execute
OptionsOf(rq) ==
  IF rq.tool = "direct" THEN ExecutionOptions(rq.code, rq.timeout, rq.memoryLimit)
  ELSE HandlerOptions(rq)

\* executor.execute has settled for request r: the caller of execute continues
\* (the handler to its return; a direct caller receives the settlement)
Deliver(r, rq, settled) ==
  /\ xres' = [xres EXCEPT ![r] = settled]
  /\ IF rq.tool = "direct"
       THEN /\ outcome' = [outcome EXCEPT ![r] =
                             IF settled.st = "resolved" THEN settled.val
                             ELSE NoOutcome]
            /\ escaped' = [escaped EXCEPT ![r] = settled.st = "rejected"]
            /\ UNCHANGED <<faults, sanitized, phases>>
       ELSE \E h \in {HandlerFinish(rq, settled)} :
               /\ outcome' = [outcome EXCEPT ![r] = h.outcome]
               /\ faults' = [faults EXCEPT ![r] = h.faults]
               /\ sanitized' = [sanitized EXCEPT ![r] = h.sanitized]
               /\ phases' = [phases EXCEPT ![r] =
                               EnteredExecute \o PhasesAfter(settled)]
               /\ escaped' = [escaped EXCEPT ![r] = h.escaped]

\* The static checks a request meets before anything runs: the handler's own
\* ("rejected": it returns their failure), then validateInput of the executor
\* ("invalid": execute returns its failure); "run" when both pass.
Admission(rq) ==
  LET rejected == IF rq.tool = "direct" THEN None ELSE HandlerReject(rq)
  IN IF rejected # None THEN [k |-> "rejected", result |-> rejected[1]]
     ELSE LET invalid == validateInput(rq.language, OptionsOf(rq))
          IN IF invalid # None THEN [k |-> "invalid", result |-> invalid[1]]
             ELSE [k |-> "run", result |-> NoOutcome]

ConcAdmission == [rq \in ConcRequests |-> Admission(rq)]

\* A request arrives.  The handler runs to its first suspension: its own
\* checks, then executor.execute up to the await inside it (validateInput;
\* for Python also the start of writeFile and the arming of the timer).
Start(r, rq, admission) ==
  /\ pc[r] = "idle"
  /\ req' = [req EXCEPT ![r] = rq]
  /\ IF admission.k = "rejected"
       THEN /\ pc' = [pc EXCEPT ![r] = "done"]
            /\ outcome' = [outcome EXCEPT ![r] = admission.result]
            /\ phases' = [phases EXCEPT ![r] = PhasesOfRejection(admission.result)]
            /\ UNCHANGED <<xopt, escaped, faults, sanitized, invoked, timer, apos,
                            xres>>
     ELSE IF admission.k = "invalid"
       THEN /\ pc' = [pc EXCEPT ![r] = "done"]
            /\ invoked' = [invoked EXCEPT ![r] = TRUE]
            /\ xopt' = [xopt EXCEPT ![r] = OptionsOf(rq)]
            /\ Deliver(r, rq, Resolved(admission.result))
            /\ UNCHANGED <<timer, apos>>
     ELSE /\ pc' = [pc EXCEPT ![r] = "awaiting"]
          /\ invoked' = [invoked EXCEPT ![r] = TRUE]
          /\ xopt' = [xopt EXCEPT ![r] = OptionsOf(rq)]
          /\ IF rq.language = "python"
               THEN /\ apos' = [apos EXCEPT ![r] = "writeFile"]
                    /\ timer' = [timer EXCEPT ![r] = "pending"]
               ELSE UNCHANGED <<timer, apos>>
          /\ phases' = [phases EXCEPT ![r] =
                          IF rq.tool = "direct" THEN <<>> ELSE EnteredExecute]
          /\ UNCHANGED <<outcome, escaped, faults, sanitized, xres>>
  /\ UNCHANGED <<ctx, file, child, isResolved, pend, subp, deadline, realm, exe>>

Invoke(r) == \E rq \in Requests : Start(r, rq, Admission(rq))

ExecuteDirect(r) == \E rq \in DirectCalls : Start(r, rq, Admission(rq))

InvokeConc(r) == \E rq \in ConcRequests : Start(r, rq, ConcAdmission[rq])

\* the race of request r settles with `raced` if it has not settled before
Race(r, raced) ==
  IF pc[r] = "awaiting"
    THEN /\ pc' = [pc EXCEPT ![r] = "done"]
         /\ \E settled \in {PyExecuteSettled(raced,
                                               EffectiveTimeout(xopt[r]))} :
              Deliver(r, req[r], settled)
    ELSE UNCHANGED <<pc, outcome, escaped, faults, sanitized, phases, xres>>

\* JavaScriptExecutor.execute from `await import('vm')` on: executeWithNodeVM
\* runs the code synchronously, arms the race timer and returns; its promise
\* is returned without await, so the catch of execute never sees a rejection.
JsRunWith(r, behaviours) ==
  /\ pc[r] = "awaiting"
  /\ req[r].language = "javascript"
  /\ \E b \in JsRunOf(xopt[r].code, behaviours) :
       /\ \E settled \in {executeWithNodeVM(InRealm(realm, b),
                                             EffectiveTimeout(xopt[r]))} :
            Deliver(r, req[r], settled)
       /\ deadline' = [deadline EXCEPT ![r] = b.k = "loop"]
       /\ realm' = RealmAfter(realm, xopt[r].code, b)
  /\ pc' = [pc EXCEPT ![r] = "done"]
  /\ ctx' = [ctx EXCEPT ![r] = TRUE]
  /\ timer' = [timer EXCEPT ![r] = "pending"]
  /\ UNCHANGED <<req, xopt, invoked>>
  /\ UNCHANGED pyVars

JsRun(r) == JsRunWith(r, JsBehaviours)

JsRunConc(r) == JsRunWith(r, ConcJsBehaviours)

\* await writeFile(tempFile, code) returns or throws
WriteFileDone(r) ==
  /\ apos[r] = "writeFile"
  /\ \/ /\ file' = [file EXCEPT ![r] = "exists"]
        /\ apos' = [apos EXCEPT ![r] = "find"]
        /\ UNCHANGED pend
     \/ /\ apos' = [apos EXCEPT ![r] = "caught"]
        /\ pend' = [pend EXCEPT ![r] =
                      Some(Rejected(Err(Str("EACCES: permission denied, open"),
                                        Str("Error: EACCES"), "EACCES")))]
        /\ UNCHANGED file
  /\ UNCHANGED <<handlerVars, ctx, timer, child, isResolved, subp, exe>>

\* await this.findPythonExecutable() returns or throws, `works` being the
\* candidates whose version probe succeeds on this machine; on return the
\* child is spawned (the spawn itself may fail, which 'error' reports later)
FindDoneWith(r, workingSets) ==
  /\ apos[r] = "find"
  /\ \E works \in workingSets :
       \E found \in {findPythonExecutable(works)} :
         /\ exe' = [exe EXCEPT ![r] = [probed |-> TRUE, works |-> works,
                                       used |-> found]]
         /\ IF found # None
              THEN /\ apos' = [apos EXCEPT ![r] = "spawned"]
                   /\ \E c \in {"alive", "failed"} :
                        child' = [child EXCEPT ![r] = c]
                   /\ UNCHANGED pend
              ELSE /\ apos' = [apos EXCEPT ![r] = "caught"]
                   /\ pend' = [pend EXCEPT ![r] = Some(Rejected(NoPythonError))]
                   /\ UNCHANGED child
  /\ UNCHANGED <<handlerVars, ctx, timer, file, isResolved, subp>>

FindDone(r) == FindDoneWith(r, WorkingSets)

FindDoneConc(r) == FindDoneWith(r, ConcWorkingSets)

\* pythonProcess.on('error'): up to its await unlink
ChildError(r) ==
  /\ child[r] = "failed"
  /\ child' = [child EXCEPT ![r] = "errored"]
  /\ IF isResolved[r] THEN UNCHANGED <<isResolved, pend>>
     ELSE /\ isResolved' = [isResolved EXCEPT ![r] = TRUE]
          /\ pend' = [pend EXCEPT ![r] =
                        Some(Rejected(Err(Str("spawn /usr/bin/python3 ENOENT"),
                                          Str("Error: spawn"), "ENOENT")))]
  /\ UNCHANGED <<handlerVars, ctx, timer, apos, file, subp, exe>>

\* a 'close' handler without the test of isResolved
ChildCloseWith_Unguarded(r, exits) ==
  /\ child[r] \in {"alive", "errored"}
  /\ child[r] = "alive" => PyExitsOf(xopt[r].code, exits) # {}
  /\ child' = [child EXCEPT ![r] = IF child[r] = "alive" THEN "exited" ELSE "closed"]
  /\ isResolved' = [isResolved EXCEPT ![r] = TRUE]
  /\ \E e \in IF child[r] = "alive" THEN PyExitsOf(xopt[r].code, exits) ELSE exits :
       pend' = [pend EXCEPT ![r] =
                  Some(PyCloseSettle(e.exitCode, e.stdout, e.stderr))]
  /\ UNCHANGED <<handlerVars, ctx, timer, apos, file, subp, exe>>

\* the child ends and pythonProcess.on('close') runs up to its await unlink
ChildCloseWith(r, exits) ==
  /\ child[r] \in {"alive", "errored"}
  /\ child[r] = "alive" => PyExitsOf(xopt[r].code, exits) # {}
  /\ child' = [child EXCEPT ![r] = IF child[r] = "alive" THEN "exited" ELSE "closed"]
  /\ IF isResolved[r] THEN UNCHANGED <<isResolved, pend>>
     ELSE /\ isResolved' = [isResolved EXCEPT ![r] = TRUE]
          /\ \E e \in PyExitsOf(xopt[r].code, exits) :
               pend' = [pend EXCEPT ![r] =
                          Some(PyCloseSettle(e.exitCode, e.stdout, e.stderr))]
  /\ UNCHANGED <<handlerVars, ctx, timer, apos, file, subp, exe>>

ChildClose(r) == ChildCloseWith(r, PyExits)

ChildCloseConc(r) == ChildCloseWith(r, ConcPyExits)

\* await unlink(tempFile) returns in a handler or in the catch block, which
\* then settles the promise of executePythonSubprocess
UnlinkDone(r) ==
  /\ pend[r] # None
  /\ pend' = [pend EXCEPT ![r] = None]
  /\ file' = [file EXCEPT ![r] = IF file[r] = "exists" THEN "deleted" ELSE file[r]]
  /\ IF subp[r] = "pending"
       THEN /\ subp' = [subp EXCEPT ![r] = pend[r][1].st]
            /\ Race(r, pend[r][1])
       ELSE UNCHANGED <<subp, pc, outcome, escaped, faults, sanitized, phases,
                        xres>>
  /\ UNCHANGED <<req, xopt, invoked, ctx, timer, apos, child, isResolved, deadline,
                  realm, exe>>

\* the setTimeout callback of createTimeoutPromise: reject(new Error('TIMEOUT'))
TimerFire(r) ==
  /\ timer[r] = "pending"
  /\ timer' = [timer EXCEPT ![r] = "fired"]
  /\ Race(r, Rejected(NewError("TIMEOUT")))
  /\ deadline' = [deadline EXCEPT ![r] = deadline[r] \/ pc[r] = "awaiting"]
  /\ UNCHANGED <<req, xopt, invoked, ctx, realm>>
  /\ UNCHANGED pyVars

\* one request at a time, through a handler or directly to an executor
Next ==
  \E r \in {1} :
    \/ Invoke(r) /\ UNCHANGED pureVars
    \/ ExecuteDirect(r) /\ UNCHANGED pureVars
    \/ JsRun(r) /\ UNCHANGED pureVars
    \/ WriteFileDone(r) /\ UNCHANGED pureVars
    \/ FindDone(r) /\ UNCHANGED pureVars
    \/ ChildError(r) /\ UNCHANGED pureVars
    \/ ChildClose(r) /\ UNCHANGED pureVars
    \/ UnlinkDone(r) /\ UNCHANGED pureVars
    \/ TimerFire(r) /\ UNCHANGED pureVars

Spec == Init /\ [][Next]_vars

\* concurrent requests to the handlers.  The VM run is synchronous and ends
\* at the latest when the VM deadline stops it; a pending timer fires because
\* no step blocks the event loop for ever.
ConcNext ==
  \E r \in Reqs :
    \/ InvokeConc(r) /\ UNCHANGED pureVars
    \/ JsRunConc(r) /\ UNCHANGED pureVars
    \/ WriteFileDone(r) /\ UNCHANGED pureVars
    \/ FindDoneConc(r) /\ UNCHANGED pureVars
    \/ ChildError(r) /\ UNCHANGED pureVars
    \/ ChildCloseConc(r) /\ UNCHANGED pureVars
    \/ UnlinkDone(r) /\ UNCHANGED pureVars
    \/ TimerFire(r) /\ UNCHANGED pureVars

ConcSpec ==
  /\ Init
  /\ [][ConcNext]_vars
  /\ \A r \in Reqs : WF_vars(JsRunConc(r) /\ UNCHANGED pureVars)
  /\ \A r \in Reqs : WF_vars(TimerFire(r) /\ UNCHANGED pureVars)

\* requests to the handlers whose runs meet in the host realm: a script that
\* replaces an intrinsic, a script that prints, a script that never ends and
\* a Python program
ShareRequests ==
  { Request("execute_code", "javascript", JoinPatch, NoVariables, Some(1000), None),
    Request("execute_code", "javascript", "console.log('hi')", NoVariables,
            Some(1000), None),
    Request("execute_code", "javascript", "while(true);", NoVariables,
            Some(1000), None),
    Request("execute_code", "python", "print('hi')", NoVariables, Some(1000), None) }

InvokeShare(r) == \E rq \in ShareRequests : Start(r, rq, Admission(rq))

ShareNext ==
  \E r \in Reqs :
    \/ InvokeShare(r) /\ UNCHANGED pureVars
    \/ JsRunConc(r) /\ UNCHANGED pureVars
    \/ WriteFileDone(r) /\ UNCHANGED pureVars
    \/ FindDoneConc(r) /\ UNCHANGED pureVars
    \/ ChildError(r) /\ UNCHANGED pureVars
    \/ ChildCloseConc(r) /\ UNCHANGED pureVars
    \/ UnlinkDone(r) /\ UNCHANGED pureVars
    \/ TimerFire(r) /\ UNCHANGED pureVars

ShareSpec == Init /\ [][ShareNext]_vars


(***************************************************************************)
(* The memory-limit specification: one request is submitted twice, the two *)
(* submissions differing only in a valid memoryLimit, and the environment  *)
(* does the same to both runs (the same behaviour of the script, the same  *)
(* settlement of the Python race).                                         *)
(***************************************************************************)
MemPair == {1, 2}

ValidMemoryLimits == {None, Some(0), Some(64), Some(512)}

MemRequests ==
  { Request(tool, language, code, NoVariables, timeout, None) :
      tool \in {"direct", "execute_code"}, language \in Languages,
      code \in {AnyProgram, "console.log('hi')", "print('hi')",
                "import os\nos.system('ls')"},
      timeout \in {None, Some(1000), Some(70000)} }

WithMemoryLimit(rq, m) == [rq EXCEPT !.memoryLimit = m]

\* the settlements of the race of a Python run
PyRaces(code) ==
  { PyCloseSettle(e.exitCode, e.stdout, e.stderr) : e \in PyExitsOf(code, PyExits) }
  \cup { Rejected(NewError("TIMEOUT")), Rejected(NoPythonError) }

\* what the environment can do to a run of the code
RunsOf(language, code) ==
  IF language = "javascript" THEN JsRunOf(code, JsBehaviours) ELSE PyRaces(code)

\* executor.execute of a request whose run the environment settles as env
ExecuteSettled(rq, o, env) ==
  IF rq.language = "javascript" THEN executeWithNodeVM(env, EffectiveTimeout(o))
  ELSE PyExecuteSettled(env, EffectiveTimeout(o))

\* the caller of executor.execute after the settlement: the handler runs to
\* its return, a direct caller receives the settlement
Answered(rq, settled) ==
  IF rq.tool = "direct"
    THEN [pc |-> "done", xres |-> settled, invoked |-> TRUE,
          outcome |-> IF settled.st = "resolved" THEN settled.val ELSE NoOutcome,
          escaped |-> settled.st = "rejected"]
    ELSE Pipe(HandlerFinish(rq, settled),
              LAMBDA h : [pc |-> "done", xres |-> settled, invoked |-> TRUE,
                          outcome |-> h.outcome, escaped |-> h.escaped])

\* a submission up to the await of the run
Admitted(rq, admission) ==
  IF admission.k = "rejected"
    THEN [pc |-> "done", xres |-> Rejected(NewError("<none>")), invoked |-> FALSE,
          outcome |-> admission.result, escaped |-> FALSE]
  ELSE IF admission.k = "invalid" THEN Answered(rq, Resolved(admission.result))
  ELSE [pc |-> "awaiting", xres |-> Rejected(NewError("<none>")), invoked |-> TRUE,
        outcome |-> NoOutcome, escaped |-> FALSE]

\* the state of the two submissions becomes st
MemBecomes(st) ==
  /\ pc' = [r \in Reqs |-> IF r \in MemPair THEN st[r].pc ELSE pc[r]]
  /\ xres' = [r \in Reqs |-> IF r \in MemPair THEN st[r].xres ELSE xres[r]]
  /\ invoked' = [r \in Reqs |-> IF r \in MemPair THEN st[r].invoked ELSE invoked[r]]
  /\ outcome' = [r \in Reqs |-> IF r \in MemPair THEN st[r].outcome ELSE outcome[r]]
  /\ escaped' = [r \in Reqs |-> IF r \in MemPair THEN st[r].escaped ELSE escaped[r]]

MemSubmit(rqs) ==
  /\ req' = [r \in Reqs |-> IF r \in MemPair THEN rqs[r] ELSE req[r]]
  /\ xopt' = [r \in Reqs |-> IF r \in MemPair THEN OptionsOf(rqs[r]) ELSE xopt[r]]
  /\ MemBecomes([i \in MemPair |-> Admitted(rqs[i], Admission(rqs[i]))])

MemInvoke ==
  /\ \A i \in MemPair : pc[i] = "idle"
  /\ \E rq \in MemRequests, m1 \in {None, Some(64)} :
       \E m2 \in ValidMemoryLimits \ {m1} :
       MemSubmit([i \in MemPair |-> WithMemoryLimit(rq, IF i = 1 THEN m1 ELSE m2)])
  /\ UNCHANGED <<faults, sanitized, phases, ctx, timer, deadline, realm>>
  /\ UNCHANGED pyVars

MemRun ==
  /\ \E i \in MemPair :
       /\ pc[i] = "awaiting"
       /\ \E env \in RunsOf(req[i].language, xopt[i].code) :
            MemBecomes([j \in MemPair |->
                         IF pc[j] = "awaiting"
                           THEN Answered(req[j], ExecuteSettled(req[j], xopt[j], env))
                           ELSE [pc |-> pc[j], xres |-> xres[j],
                                 invoked |-> invoked[j], outcome |-> outcome[j],
                                 escaped |-> escaped[j]]])
  /\ UNCHANGED <<req, xopt, faults, sanitized, phases, ctx, timer, deadline,
                  realm>>
  /\ UNCHANGED pyVars

MemNext ==
  \/ MemInvoke /\ UNCHANGED pureVars
  \/ MemRun /\ UNCHANGED pureVars

MemSpec == Init /\ [][MemNext]_vars

(***************************************************************************)
(* The validator specification: InputValidator's functions applied to      *)
(* inputs drawn from bounded sets.  A code text is a concatenation of at   *)
(* most MaxFragments fragments.                                            *)
(***************************************************************************)
MaxFragments == 2

JsFragments ==
  { "x = 1;", "global.eval(", " ", "\n", "require ('fs')", "import a from 'b'", "process.exit()",
    "eval(", "new Function(", "while(true)", "for(;;)", "setTimeout(f, 0)",
    "new Array(999999)", "s.repeat(1000)", "new Array(99999)" }

PyFragments ==
  { "x = 1", " ", "\n", "import os", "from sys import x", "with open(f)",
    "exec (c)", "eval(", "__import__('os')", "while True:",
    "for i in range(1000000): ", "[0] * 1000", "'a' * 99999", "'a' * 999" }

RECURSIVE Texts(_, _)
Texts(fragments, n) ==
  IF n = 0 THEN {""}
  ELSE LET shorter == Texts(fragments, n - 1)
       IN shorter \cup {t \o f : t \in shorter, f \in fragments}

ValidatorCall(fn, language, code, timeout, memoryLimit, enableNetworking) ==
  [fn |-> fn, language |-> language, code |-> code, timeout |-> timeout,
   memoryLimit |-> memoryLimit, enableNetworking |-> enableNetworking]

ValidateJavaScript ==
  \E code \in Texts(JsFragments, MaxFragments) :
    /\ vin' = ValidatorCall("validateJavaScriptCode", "javascript", code,
                            None, None, None)
    /\ vout' = validateJavaScriptCode(code)

ValidatePython ==
  \E code \in Texts(PyFragments, MaxFragments) :
    /\ vin' = ValidatorCall("validatePythonCode", "python", code, None, None, None)
    /\ vout' = validatePythonCode(code)

ValidateOptions ==
  \E language \in {"", "javascript", "python", "ruby"},
     code \in {"", " \n", "x = 1", LongCode},
     timeout \in {None, Some(-1), Some(0), Some(1000), Some(45000), Some(70000)},
     memoryLimit \in {None, Some(-5), Some(128), Some(300), Some(600)},
     enableNetworking \in {None, Some(TRUE), Some(FALSE)} :
    /\ vin' = ValidatorCall("validateExecutionOptions", language, code, timeout,
                            memoryLimit, enableNetworking)
    /\ vout' = validateExecutionOptions(
                 [language |-> language, code |-> code, input |-> None,
                  timeout |-> timeout, memoryLimit |-> memoryLimit,
                  enableNetworking |-> enableNetworking])

\* one call from the initial state
ValNext ==
  \/ vin.fn = "none" /\ ValidateJavaScript /\ UNCHANGED <<runVars, seqVars, tmVars>>
  \/ vin.fn = "none" /\ ValidatePython /\ UNCHANGED <<runVars, seqVars, tmVars>>
  \/ vin.fn = "none" /\ ValidateOptions /\ UNCHANGED <<runVars, seqVars, tmVars>>

ValSpec == Init /\ [][ValNext]_vars

(***************************************************************************)
(* The input/output specification: the functions that carry a run's stdin  *)
(* and stdout, and the sanitizers of OutputSanitizer, applied to inputs    *)
(* drawn from bounded sets.                                                *)
(***************************************************************************)
\* what a Python program wrote to standard output
WrittenTexts ==
  { "", "hi\n", "hi", " hi\n", "\thi \n\n", "  \n", "a\nb\n", "a STDOUT: b\n",
    "STDOUT:\n", "STDERR: x\n", "total: 3\n" }

\* the wrapper script re-emits the captured text: print("STDOUT:", output, end="")
PyWrapperStdout(written) == IF written = "" THEN "" ELSE "STDOUT: " \o written

\* the output field of a Python run that wrote `written` and exited with 0,
\* as PythonExecutor.execute returns it and as the handler returns it
PythonOutput ==
  \E written \in WrittenTexts, tool \in {"direct", "execute_code"} :
    /\ vin' = [fn |-> "pythonOutput", written |-> written, tool |-> tool]
    /\ vout' = Answered(Request(tool, "python", AnyProgram, NoVariables, None, None),
                        PyExecuteSettled(
                          PyCloseSettle(0, PyWrapperStdout(written), ""),
                          DefaultMaxExecutionTime)).outcome

\* createSandbox: the lines readline() replays
inputLines(input) ==
  IF input = None \/ input[1] = "" THEN <<>> ELSE Split(input[1], "\n")

\* the sandbox of a run: readline's lines and index, the capture of
\* console.log, and (for the record) what the calls of readline returned
createSandbox(input) ==
  [inputLines |-> inputLines(input), inputIndex |-> 0, outputCapture |-> <<>>,
   reads |-> <<>>]

\* a readline() that never advances its index
readline_NoAdvance(sb) ==
  IF sb.inputIndex < Len(sb.inputLines)
    THEN [value |-> sb.inputLines[sb.inputIndex + 1], sb |-> sb]
    ELSE [value |-> "", sb |-> sb]

\* readline(): the value returned and the sandbox after the call
readline(sb) ==
  IF sb.inputIndex < Len(sb.inputLines)
    THEN [value |-> sb.inputLines[sb.inputIndex + 1],
          sb |-> [sb EXCEPT !.inputIndex = @ + 1]]
    ELSE [value |-> "", sb |-> sb]

\* the statements of the programs that read: console.log(text),
\* readline() and console.log("Hello, " + readline() + "!")
LogStatement(text) == [k |-> "log", text |-> text]

ReadStatement == [k |-> "read", text |-> ""]

EchoStatement == [k |-> "echo", text |-> ""]

Recorded(r) == [r.sb EXCEPT !.reads = Append(@, r.value)]

Logged(sb, text) == [sb EXCEPT !.outputCapture = Append(@, text)]

SandboxStep(sb, statement) ==
  IF statement.k = "log" THEN Logged(sb, statement.text)
  ELSE IF statement.k = "read" THEN Recorded(readline(sb))
  ELSE Pipe(readline(sb),
            LAMBDA r : Logged(Recorded(r), "Hello, " \o r.value \o "!"))

RECURSIVE RunStatements(_, _)
RunStatements(sb, statements) ==
  IF statements = <<>> THEN sb
  ELSE RunStatements(SandboxStep(sb, Head(statements)), Tail(statements))

MaxStatements == 4

Statements == {LogStatement("What's your name?"), ReadStatement, EchoStatement}

RECURSIVE Programs(_)
Programs(n) ==
  IF n = 0 THEN {<<>>}
  ELSE LET shorter == Programs(n - 1)
       IN shorter \cup {Append(p, st) : p \in shorter, st \in Statements}

Stdins == {None, Some(""), Some("Alice"), Some("a\nb"), Some("a\n\nb"), Some("a\n")}

\* a JavaScript run of a program of these statements: wrapCode returns
\* __output.join('\n')
JsReadlineRun ==
  \E input \in Stdins, program \in Programs(MaxStatements) :
    /\ vin' = [fn |-> "readline", input |-> input, program |-> program]
    /\ vout' = Pipe(RunStatements(createSandbox(input), program),
                    LAMBDA sb : [reads |-> sb.reads,
                                 output |-> Join(sb.outputCapture, "\n")])

\* Values with identity.  A value is a primitive, a reference to an object
\* of the heap, or a container written inline (an object of its own, as
\* JSON.parse makes them).  A container is an array or an object; its items
\* are keyed values, in order (the key of an array item is its index).
Prim(k, text) == [k |-> k, text |-> text]

Ref(id) == [k |-> "ref", id |-> id]

Item(key, val) == [key |-> key, val |-> val]

Container(k, items) == [k |-> k, items |-> items]

CircularMarker == Prim("string", "[Circular Reference]")

\* what the serializer writes for an item whose value it cannot write:
\* null in an array, nothing in an object
Unwritable(v) == v.k \in {"undefined", "function"}

WrittenItem(k, key, tree) ==
  IF Unwritable(tree) THEN (IF k = "array" THEN <<Item(key, Prim("null", ""))>> ELSE <<>>)
  ELSE IF tree.k = "nan" THEN <<Item(key, Prim("null", ""))>>
  ELSE <<Item(key, tree)>>

\* a replacer that replaces nothing: the references of the tree remain
SerializeValue_NoMarker(heap, v, seen) == [tree |-> v, seen |-> seen]

\* JSON.parse(JSON.stringify(value, replacer)) with the replacer of
\* sanitizeReturnValue: `seen` holds the objects met so far, and an object
\* met again is replaced by the marker.  The result is the parsed tree and
\* the set after the traversal.
RECURSIVE SerializeValue(_, _, _)
RECURSIVE SerializeItems(_, _, _, _, _)
SerializeValue(heap, v, seen) ==
  IF v.k = "ref"
    THEN IF v.id \in seen THEN [tree |-> CircularMarker, seen |-> seen]
         ELSE SerializeItems(heap, heap[v.id], 1, seen \cup {v.id}, <<>>)
  ELSE IF v.k \in {"array", "object"} THEN SerializeItems(heap, v, 1, seen, <<>>)
  ELSE [tree |-> v, seen |-> seen]

SerializeNext(heap, node, i, done, r) ==
  SerializeItems(heap, node, i + 1, r.seen,
                 done \o WrittenItem(node.k, node.items[i].key, r.tree))

SerializeItems(heap, node, i, seen, done) ==
  IF i > Len(node.items) THEN [tree |-> Container(node.k, done), seen |-> seen]
  ELSE SerializeNext(heap, node, i, done,
                     SerializeValue(heap, node.items[i].val, seen))

\* OutputSanitizer.sanitizeReturnValue
sanitizeReturnValue(heap, value) ==
  IF value.k \in {"null", "undefined"} THEN value
  ELSE IF value.k = "function" THEN Prim("string", "[Function]")
  ELSE IF value.k = "nan" THEN Prim("null", "")
  ELSE SerializeValue(heap, value, {}).tree

MaxItems == 2

HeapIds == {1, 2}

HeapValues ==
  {Prim("number", "1"), Prim("undefined", "")} \cup {Ref(id) : id \in HeapIds}

RECURSIVE ItemLists(_, _)
ItemLists(values, n) ==
  IF n = 0 THEN {<<>>}
  ELSE LET shorter == ItemLists(values, n - 1)
       IN shorter \cup {Append(l, Item(SubSeq("abcdefgh", n, n), v)) :
                          l \in {x \in shorter : Len(x) = n - 1}, v \in values}

Heaps ==
  [HeapIds -> {Container(k, items) :
                 k \in {"array", "object"}, items \in ItemLists(HeapValues, MaxItems)}]

ReturnValues ==
  { Ref(1), Prim("string", "a"), Prim("null", ""), Prim("undefined", ""),
    Prim("function", ""), Prim("nan", ""),
    Container("array", <<Item("a", Ref(1)), Item("b", Ref(1))>>),
    Container("object", <<Item("a", Ref(2)), Item("b", Prim("function", "")),
                          Item("c", Prim("nan", ""))>>) }

\* sanitizeReturnValue applied to a value, and to its own result
SanitizeReturnValue ==
  \E heap \in Heaps, value \in ReturnValues :
    /\ vin' = [fn |-> "sanitizeReturnValue", heap |-> heap, value |-> value]
    /\ vout' = Pipe(sanitizeReturnValue(heap, value),
                    LAMBDA once : [once |-> once,
                                   twice |-> sanitizeReturnValue(heap, once)])

\* the ceilings of sanitizeOutput at the scale of the texts below
ScaledOutputSize == 32

ScaledLines == 3

\* n copies of a text
RECURSIVE Repeated(_, _)
Repeated(text, n) == IF n = 0 THEN "" ELSE text \o Repeated(text, n - 1)

OutputTexts ==
  { "hi", "a\nb\nc", "a\nb\nc\nd\ne\nf\ng", "password=hunter2 ok",
    "/home/alice/notes", "line\r\nline\r\n", "token: abc\nbearer xyz\n" }
  \cup { Repeated("x", n) : n \in {ScaledOutputSize - 1, ScaledOutputSize,
                                     ScaledOutputSize + 1, ScaledOutputSize + 9} }
  \cup { Repeated("/c:/", n) : n \in {1, 4, 8} }
  \cup { Repeated("a\r", n) : n \in {2, 3, 6} }
  \cup { Repeated("y\n", n) : n \in {2, 3, 6, 20} }

\* sanitizeOutput with the scaled ceilings
SanitizeOutput ==
  \E text \in OutputTexts :
    /\ vin' = [fn |-> "sanitizeOutput", text |-> text,
               maxOutputSize |-> ScaledOutputSize, maxLines |-> ScaledLines]
    /\ vout' = [text |-> sanitizeOutputWith(text, ScaledOutputSize, ScaledLines)]

(***************************************************************************)
(* The wrapper script of createSecurePythonWrapper as the interpreter runs  *)
(* it.  The wrapper's own names live in the module namespace; the builtins  *)
(* module holds __import__, open, exec and eval; original_exec(user_code)   *)
(* is called with no namespace argument, so the user code runs in the       *)
(* namespace of the wrapper module.  A function of the wrapper or of the    *)
(* interpreter is a value named after it.                                   *)
(***************************************************************************)
blocked_modules ==
  { "os", "sys", "subprocess", "socket", "urllib", "urllib2", "urllib3",
    "requests", "http", "ftplib", "smtplib", "telnetlib", "webbrowser",
    "tempfile", "shutil", "glob", "fnmatch", "pathlib", "importlib" }

allowed_modules ==
  { "math", "random", "datetime", "json", "base64", "hashlib", "builtins",
    "collections", "itertools", "functools", "re" }

internal_safe_modules ==
  { "_io", "_collections", "_functools", "_operator", "_thread", "_weakref",
    "_locale", "_codecs", "_sre" }

safe_builtins ==
  { "builtins", "collections", "itertools", "functools", "re", "string",
    "textwrap", "unicodedata", "codecs", "io", "contextlib", "abc", "types",
    "copy", "pickle", "operator", "weakref", "threading", "queue", "heapq",
    "bisect", "array", "struct", "enum", "decimal", "fractions", "statistics",
    "cmath" }

\* name.startswith(prefix)
StartsWith(name, prefix) ==
  Len(prefix) <= Len(name) /\ SubSeq(name, 1, Len(prefix)) = prefix

\* name in modules or any(name.startswith(m + '.') for m in modules)
NamedOrWithin(name, modules) ==
  name \in modules \/ \E m \in modules : StartsWith(name, m \o ".")

\* secure_import: "load" when it returns original_import(...), else the
\* exception it raises
secure_import(name) ==
  IF StartsWith(name, "_") /\ ~StartsWith(name, "__")
     /\ NamedOrWithin(name, internal_safe_modules)
    THEN "load"
  ELSE IF NamedOrWithin(name, allowed_modules) THEN "load"
  ELSE IF NamedOrWithin(name, blocked_modules) THEN "SecurityError"
  ELSE IF name \in safe_builtins THEN "load"
  ELSE "SecurityError"

\* the names bound in the wrapper module when original_exec(user_code) runs
WrapperGlobals ==
  { "sys", "builtins", "io", "redirect_stdout", "redirect_stderr",
    "blocked_modules", "SecurityError", "original_import", "original_exec",
    "original_eval", "secure_import", "blocked_open", "blocked_exec",
    "blocked_eval", "stdout_capture", "stderr_capture", "user_code" }

\* the attributes of the builtins module that the wrapper replaces
GuardedBuiltins == {"__import__", "open", "exec", "eval"}

\* the interpreter at the call original_exec(user_code): the guards are in
\* place and the original exec is being invoked for the first time
WrapperAtUserCode ==
  [ builtins |-> [a \in GuardedBuiltins |->
                    CASE a = "__import__" -> "secure_import"
                      [] a = "open" -> "blocked_open"
                      [] a = "exec" -> "blocked_exec"
                      [] a = "eval" -> "blocked_eval"],
    loaded |-> {}, evaluations |-> 1, resolved |-> {}, raised |-> None ]

\* statements of user code: import name; builtins.attr = value (value a
\* name); name('...')
ImportStatement(name) == [op |-> "import", name |-> name, attr |-> ""]

AssignBuiltin(attr, name) == [op |-> "assign", name |-> name, attr |-> attr]

CallStatement(name) == [op |-> "call", name |-> name, attr |-> ""]

\* the value a name denotes in user code: a name of the wrapper module, then
\* a builtin; None for a NameError
Resolve(w, name) ==
  IF name \in WrapperGlobals THEN Some(name)
  ELSE IF name \in GuardedBuiltins THEN Some(w.builtins[name])
  ELSE None

Raise(w, text) == [w EXCEPT !.raised = Some(text)]

\* calling the function f
CallValue(w, f) ==
  IF f = "blocked_exec" THEN Raise(w, "exec() is not allowed")
  ELSE IF f = "blocked_eval" THEN Raise(w, "eval() is not allowed")
  ELSE IF f = "blocked_open" THEN Raise(w, "File operations are not allowed")
  ELSE IF f \in {"original_exec", "original_eval"}
    THEN [w EXCEPT !.evaluations = @ + 1]
  ELSE Raise(w, "TypeError")

\* the import statement calls builtins.__import__
ImportWith(w, name) ==
  IF w.builtins["__import__"] = "original_import"
     \/ (w.builtins["__import__"] = "secure_import" /\ secure_import(name) = "load")
    THEN [w EXCEPT !.loaded = @ \cup {name}]
  ELSE IF w.builtins["__import__"] = "secure_import"
    THEN Raise(w, "Import of module '" \o name \o "' is not allowed")
  ELSE CallValue(w, w.builtins["__import__"])

\* one statement of the user code
WrapperStep(w, st) ==
  IF st.op = "import" THEN ImportWith(w, st.name)
  ELSE LET v == Resolve(w, st.name)
       IN IF v = None THEN Raise(w, "name '" \o st.name \o "' is not defined")
          ELSE IF st.op = "assign"
            THEN [w EXCEPT !.builtins[st.attr] = v[1],
                           !.resolved = @ \cup {st.name}]
          ELSE CallValue([w EXCEPT !.resolved = @ \cup {st.name}], v[1])

\* the states of the interpreter while the user code runs: at its start and
\* after each statement, up to the statement that raises
RECURSIVE WrapperStates(_, _, _)
WrapperStates(w, program, k) ==
  IF k > Len(program) \/ w.raised # None THEN <<w>>
  ELSE <<w>> \o WrapperStates(WrapperStep(w, program[k]), program, k + 1)

\* the finally of the wrapper: builtins.exec and builtins.eval are restored
WrapperFinally(w) ==
  [w EXCEPT !.builtins["exec"] = "original_exec",
            !.builtins["eval"] = "original_eval"]

MaxUserStatements == 2

ModuleNames ==
  { "os", "os.path", "shutil", "math", "json.decoder", "string",
    "string.templatelib", "io", "_io", "_socket", "numpy", "__future__" }

UserStatements ==
  { ImportStatement(m) : m \in ModuleNames }
  \cup { AssignBuiltin(a, n) :
           a \in GuardedBuiltins,
           n \in {"original_import", "original_exec", "original_eval", "undefined_name"} }
  \cup { CallStatement(n) :
           n \in {"exec", "eval", "open", "original_exec", "original_eval"} }

UserPrograms ==
  UNION { [1..n -> UserStatements] : n \in 0..MaxUserStatements }

\* python runs the wrapper script around a user program
RunWrapper ==
  \E program \in UserPrograms :
    /\ vin' = [fn |-> "wrapper", program |-> program]
    /\ vout' = Pipe(WrapperStates(WrapperAtUserCode, program, 1),
                    LAMBDA during :
                      [during |-> during,
                       after |-> WrapperFinally(during[Len(during)])])

\* the values of timeoutMs in a request and of MAX_EXECUTION_TIME in the
\* environment of the process (parseInt of the variable, 10000 when unset)
RequestTimeouts ==
  {None} \cup {Some(t) : t \in {-5, 0, 50, 100, 1000, 60000, 70000}}

ConfiguredExecutionTimes == {ConfigMaxExecutionTime, 0, 50, 5000, 60000, 120000}

\* the handler's timeout normalisation followed by validateInput of the
\* executor on the options it built
NormalizeRequestTimeout ==
  \E timeout \in RequestTimeouts, maxExecutionTime \in ConfiguredExecutionTimes,
     language \in Languages :
    /\ vin' = [fn |-> "normalizeTimeout", timeout |-> timeout,
               maxExecutionTime |-> maxExecutionTime, language |-> language]
    /\ vout' = Pipe(NormalizeTimeoutWith(timeout, maxExecutionTime),
                    LAMBDA validatedTimeout :
                      [timeout |-> validatedTimeout,
                       invalid |-> validateInput(
                                     language,
                                     ExecutionOptions("x = 1", Some(validatedTimeout),
                                                      Some(ConfigMaxMemoryUsage)))])

\* the value Python gives the characters of a string literal from index i
\* up to (not including) index stop: \\ is a backslash, \" a double quote
RECURSIVE PyUnescape(_, _, _)
PyUnescape(text, i, stop) ==
  IF i >= stop THEN ""
  ELSE IF CharAt(text, i) = "\\" /\ i + 1 < stop
    THEN (IF CharAt(text, i + 1) \in {"\\", "\""} THEN CharAt(text, i + 1)
          ELSE SubSeq(text, i, i + 1))
         \o PyUnescape(text, i + 2, stop)
  ELSE CharAt(text, i) \o PyUnescape(text, i + 1, stop)

\* user codes with backslashes, quotes and runs of quotes
EmbeddedCodes ==
  { "print('hi')", "", "print(\"a\\nb\")", "path = 'c:\\\\dir'",
    "s = \"\"\"doc\"\"\"\nprint(s)", "x = \"", "x = \"\"", "print(\"hi\")",
    "\"\"\"\"", "\"\"\"\"\"\"", "x = 1 # \\", "print(\"\\\"\")" }

\* python reads the line user_code = """...""" of the wrapper script: where
\* the literal ends, what follows it on the line, and the value it denotes
EmbedUserCode ==
  \E userCode \in EmbeddedCodes :
    /\ vin' = [fn |-> "userCodeLiteral", userCode |-> userCode]
    /\ vout' = Pipe(userCodeLiteral(userCode),
                    LAMBDA text :
                      Pipe(ClosingQuotes(text, 4),
                           LAMBDA close :
                             [literal |-> text,
                              closed |-> close # 0,
                              after |-> AfterUserCode(userCode),
                              value |-> IF close = 0 THEN ""
                                        ELSE PyUnescape(text, 4, close)]))

IoNext ==
  \/ vin.fn = "none" /\ PythonOutput /\ UNCHANGED <<runVars, seqVars, tmVars>>
  \/ vin.fn = "none" /\ JsReadlineRun /\ UNCHANGED <<runVars, seqVars, tmVars>>
  \/ vin.fn = "none" /\ SanitizeReturnValue /\ UNCHANGED <<runVars, seqVars, tmVars>>
  \/ vin.fn = "none" /\ SanitizeOutput /\ UNCHANGED <<runVars, seqVars, tmVars>>
  \/ vin.fn = "none" /\ RunWrapper /\ UNCHANGED <<runVars, seqVars, tmVars>>
  \/ vin.fn = "none" /\ EmbedUserCode /\ UNCHANGED <<runVars, seqVars, tmVars>>
  \/ vin.fn = "none" /\ NormalizeRequestTimeout /\ UNCHANGED <<runVars, seqVars, tmVars>>

IoSpec == Init /\ [][IoNext]_vars

(***************************************************************************)
(* The validate_code specification: at most MaxCalls calls, one after      *)
(* another, of the validate_code tool and of the two language validators.  *)
(* The handler has no await before its return, so a call is one step.      *)
(***************************************************************************)
MaxCalls == 3

SeqCodes == {"eval(1); eval(2)", "new Array(999999)", "while True: pass"}

\* the object the validate_code handler serializes; language and code are
\* strings (zod), so nothing in the try block throws
ValidateCodeResult(language, code, languageValidation) ==
  LET inputValidation ==
        validateExecutionOptions(
          [language |-> language, code |-> code, input |-> None,
           timeout |-> None, memoryLimit |-> None, enableNetworking |-> None])
  IN [valid |-> inputValidation.isValid /\ languageValidation.isValid,
      inputValidation |-> inputValidation,
      languageValidation |-> languageValidation,
      recommendations |->
        IfTrue(Len(code) > 10000,
               "Consider breaking large code into smaller functions")
        \o IfTrue(language = "javascript" /\ Test({Lit("console.log")}, code),
                  "Use console.log sparingly for better performance")
        \o IfTrue(language = "python"
                    /\ Test({Lit("print") \o WsStar \o Lit("(")}, code),
                  "Use print statements sparingly for better performance")]

LoggedCall(fn, language, code, result) ==
  [fn |-> fn, language |-> language, code |-> code, result |-> result]

ValidateCode ==
  /\ Len(vlog) < MaxCalls
  /\ \E language \in Languages, code \in SeqCodes :
    \E v \in {ValidateLanguage(language, code, rx[language])} :
      /\ vlog' = Append(vlog, LoggedCall("validate_code", language, code,
                           ValidateCodeResult(language, code, v.result)))
      /\ rx' = [rx EXCEPT ![language] = v.patterns]

\* InputValidator.validateJavaScriptCode / validatePythonCode called directly
CallLanguageValidator ==
  /\ Len(vlog) < MaxCalls
  /\ \E language \in Languages, code \in SeqCodes :
    \E v \in {ValidateLanguage(language, code, rx[language])} :
      /\ vlog' = Append(vlog, LoggedCall(
                    IF language = "javascript" THEN "validateJavaScriptCode"
                    ELSE "validatePythonCode", language, code, v.result))
      /\ rx' = [rx EXCEPT ![language] = v.patterns]

SeqNext ==
  \/ ValidateCode /\ UNCHANGED <<runVars, valVars, tmVars>>
  \/ CallLanguageValidator /\ UNCHANGED <<runVars, valVars, tmVars>>

SeqSpec == Init /\ [][SeqNext]_vars

(***************************************************************************)
(* The callers of TimeoutManager and the event loop                         *)
(***************************************************************************)
TimeoutManagerNow == TimeoutManager(activeTimeouts, nodeTimers, cleared)

TimeoutManagerBecomes(tm) ==
  /\ activeTimeouts' = tm.activeTimeouts
  /\ nodeTimers' = tm.nodeTimers
  /\ cleared' = tm.cleared

CreateTimeout ==
  /\ created < MaxTimers
  /\ created' = created + 1
  /\ \E id \in TimeoutIds :
       TimeoutManagerBecomes(createTimeout(TimeoutManagerNow, id, created + 1))
  /\ UNCHANGED ran

ClearTimeout ==
  /\ \E id \in TimeoutIds :
       TimeoutManagerBecomes(clearTimeout(TimeoutManagerNow, id))
  /\ UNCHANGED <<ran, created>>

ClearAllTimeouts ==
  /\ TimeoutManagerBecomes(clearAllTimeouts(TimeoutManagerNow))
  /\ UNCHANGED <<ran, created>>

\* a pending timer fires: its callback runs
TimeoutFires ==
  /\ \E t \in nodeTimers :
       /\ TimeoutManagerBecomes(timeoutCallback(TimeoutManagerNow, t))
       /\ ran' = [ran EXCEPT ![t.handle] = @ + 1]
  /\ UNCHANGED created

TimerNext ==
  \/ CreateTimeout /\ UNCHANGED <<runVars, valVars, seqVars>>
  \/ ClearTimeout /\ UNCHANGED <<runVars, valVars, seqVars>>
  \/ ClearAllTimeouts /\ UNCHANGED <<runVars, valVars, seqVars>>
  \/ TimeoutFires /\ UNCHANGED <<runVars, valVars, seqVars>>

TimerSpec == Init /\ [][TimerNext]_vars

(***************************************************************************)
(* Properties                                                              *)
(***************************************************************************)
HandlerTools == {"execute_code", "execute_code_with_variables"}

BlockingRules(language) ==
  IF language = "javascript" THEN JsDangerousPatterns ELSE PyDangerousPatterns

MatchesBlockingRule(language, code) ==
  \E k \in 1..Len(BlockingRules(language)) :
     Test(BlockingRules(language)[k].re, code)

\* the request passes the handler's checks of its parameters
ParametersValid(rq) ==
  /\ rq.code # ""
  /\ rq.tool = "execute_code_with_variables" =>
       /\ rq.variables.k # "badjson"
       /\ \A i \in 1..Len(rq.variables.vars) :
            Test(IdentifierRe, rq.variables.vars[i].name)
  /\ validateExecutionOptions(
       [language |-> rq.language, code |-> ProcessedCode(rq), input |-> rq.input,
        timeout |-> rq.timeout, memoryLimit |-> rq.memoryLimit,
        enableNetworking |-> rq.enableNetworking]).isValid

\* the executor was not called and nothing of a run exists
NeverExecuted(r) ==
  /\ ~invoked[r] /\ ~ctx[r] /\ apos[r] = "idle"
  /\ file[r] = "none" /\ child[r] = "none" /\ timer[r] = "none"

\* a handler request whose processed code matches a blocking rule has returned
BlockedRequestDone(r) ==
  /\ pc[r] = "done"
  /\ req[r].tool \in HandlerTools
  /\ MatchesBlockingRule(req[r].language, ProcessedCode(req[r]))

\* C1 as stated: a request whose processed code matches a blocking rule of the
\* validator is answered with security_error and never reaches the executor.
C1_Stated ==
  \A r \in Reqs :
    BlockedRequestDone(r) =>
      outcome[r].type = "security_error" /\ NeverExecuted(r)

\* C1 amended: such a request is answered with a failure, security_error when
\* its parameters are valid and validation_error when they are not, and it
\* never reaches the executor (no VM context, no temporary file, no child).
C1_BlockedNeverExecuted ==
  \A r \in Reqs :
    BlockedRequestDone(r) =>
      /\ ~outcome[r].success
      /\ outcome[r].type = IF ParametersValid(req[r]) THEN "security_error"
                           ELSE "validation_error"
      /\ NeverExecuted(r)

\* C1 witness: an injected variable value brings the blocking pattern, and the
\* request is answered with security_error without reaching the executor
C1_Witness ==
  \E r \in Reqs :
    /\ BlockedRequestDone(r)
    /\ req[r].tool = "execute_code_with_variables"
    /\ ~MatchesBlockingRule(req[r].language, req[r].code)
    /\ outcome[r].type = "security_error"
    /\ Len(outcome[r].errors) > 0
    /\ NeverExecuted(r)

ExecutorFailed(r, type) ==
  /\ xres[r].st = "resolved"
  /\ ~xres[r].val.success
  /\ xres[r].val.type = type

\* C2: when the deadline fires before the submitted code has finished (the VM
\* stops the script, or the race timer fires while the run is pending),
\* execute returns success=false with type timeout_error.
C2_DeadlineGivesTimeoutError ==
  \A r \in Reqs : deadline[r] => pc[r] = "done" /\ ExecutorFailed(r, "timeout_error")

\* C2 witness: the race timer fired while the Python child was still running
C2_Witness ==
  \E r \in Reqs :
    /\ deadline[r] /\ req[r].language = "python" /\ apos[r] = "spawned"
    /\ timer[r] = "fired" /\ ExecutorFailed(r, "timeout_error")

\* C3 as stated: once a Python run has returned timeout_error because its
\* timer fired, no child process of that run is alive (none is left running,
\* none is spawned afterwards).
C3_Stated ==
  \A r \in Reqs :
    (deadline[r] /\ req[r].language = "python" /\ pc[r] = "done") =>
      child[r] # "alive"

\* C4 as stated: when a Python run has returned its outcome, on whatever exit
\* path, the temporary script it wrote no longer exists.
C4_Stated ==
  \A r \in Reqs :
    (pc[r] = "done" /\ req[r].language = "python") => file[r] # "exists"

ErrorTaxonomy ==
  {"validation_error", "security_error", "compilation_error", "timeout_error",
   "memory_error", "runtime_error", "internal_error"}

\* C6 as stated: every failure outcome a handler returns has a type of the
\* seven kinds of the error taxonomy.
C6_Stated ==
  \A r \in Reqs :
    (pc[r] = "done" /\ req[r].tool \in HandlerTools /\ ~outcome[r].success) =>
      outcome[r].type \in ErrorTaxonomy

\* C7 as stated: a request whose code is empty or only white space, through a
\* handler or directly to an executor, fails with validation_error and a
\* message that contains "empty".
C7_Stated ==
  \A r \in Reqs :
    (pc[r] = "done" /\ IsBlank(req[r].code)) =>
      /\ ~outcome[r].success
      /\ outcome[r].type = "validation_error"
      /\ Includes(outcome[r].message, "empty")

\* the executor's own blocked-pattern check rejected the code
RejectedByBlockedPatterns(r) ==
  /\ ExecutorFailed(r, "security_error")
  /\ xres[r].val.message =
       Str("Code execution blocked: Contains prohibited operations")

\* C8 as stated: code that matches no blocking rule of InputValidator is never
\* rejected by the executor's blocked-pattern check, and code that matches one
\* is never executed.
C8_Stated ==
  \A r \in Reqs :
    (pc[r] = "done" /\ req[r].tool \in HandlerTools) =>
      IF MatchesBlockingRule(req[r].language, ProcessedCode(req[r]))
        THEN ~ctx[r] /\ file[r] = "none" /\ child[r] = "none"
        ELSE ~RejectedByBlockedPatterns(r)

HandlerDone(r) == pc[r] = "done" /\ req[r].tool \in HandlerTools

\* a request once answered stays answered with the same outcome
OutcomeStable ==
  \A r \in Reqs :
    pc[r] = "done" => pc'[r] = "done" /\ outcome'[r] = outcome[r]
                      /\ escaped'[r] = escaped[r]

\* no request stays pending for ever (an answered request stays answered)
EveryRequestAnswered == <>[](\A r \in Reqs : pc[r] # "awaiting")

RulesOf(fn, table) ==
  IF fn = "validateJavaScriptCode"
    THEN (IF table = "dangerous" THEN JsDangerousPatterns ELSE JsSuspiciousPatterns)
    ELSE (IF table = "dangerous" THEN PyDangerousPatterns ELSE PySuspiciousPatterns)

MatchingRules(rules, code) == {k \in 1..Len(rules) : Test(rules[k].re, code)}

\* msgs is the list of the messages of the matching rules, in table order
ListsMatching(msgs, rules, code) ==
  LET matching == MatchingRules(rules, code)
  IN /\ Len(msgs) = Cardinality(matching)
     /\ \A k \in matching :
          msgs[Cardinality({j \in matching : j <= k})] = rules[k].message

\* C9: validateJavaScriptCode and validatePythonCode test every rule of both
\* tables: errors lists the messages of all matching blocking rules in
\* declaration order, warnings those of all matching advisory rules, whether
\* or not a blocking rule matched.
C9_AllMatchingRulesReported ==
  vin.fn \in {"validateJavaScriptCode", "validatePythonCode"} =>
    /\ ListsMatching(vout.errors, RulesOf(vin.fn, "dangerous"), vin.code)
    /\ ListsMatching(vout.warnings, RulesOf(vin.fn, "suspicious"), vin.code)

\* C9 witness: two blocking rules and an advisory rule match one text
C9_Witness ==
  /\ vin.fn = "validateJavaScriptCode"
  /\ vout.errors = <<"Global object access is not allowed", "eval() is not allowed">>
  /\ vout.warnings = <<"Large string repetition detected">>

\* C10: the result of each validator function has isValid true exactly when
\* its errors list is empty, whatever its warnings list holds.
C10_ValidIffNoErrors ==
  vin.fn # "none" => (vout.isValid <=> Len(vout.errors) = 0)

\* C10 witness: a result with warnings and no errors is valid
C10_Witness ==
  /\ vin.fn = "validateExecutionOptions"
  /\ Len(vout.warnings) > 0 /\ Len(vout.errors) = 0 /\ vout.isValid

\* C11: validate_code and the two language validators are deterministic and
\* stateless: any two calls with the same function, language and code return
\* identical results, whatever calls were made before or between them.
C11_SameInputSameResult ==
  \A i, j \in 1..Len(vlog) :
    (/\ vlog[i].fn = vlog[j].fn
     /\ vlog[i].language = vlog[j].language
     /\ vlog[i].code = vlog[j].code)
      => vlog[i].result = vlog[j].result

\* a rejected code validated twice by validate_code with another validation
\* of the same language in between
C11_Witness ==
  /\ Len(vlog) = 3
  /\ vlog[1].fn = "validate_code" /\ vlog[3].fn = "validate_code"
  /\ vlog[1].language = vlog[2].language /\ vlog[1].language = vlog[3].language
  /\ vlog[1].code = vlog[3].code /\ vlog[1].code # vlog[2].code
  /\ ~vlog[1].result.valid /\ ~vlog[3].result.valid

\* the outcome a handler serialized is the result the executor returned
AnsweredFromResult(r) ==
  /\ HandlerDone(r) /\ invoked[r]
  /\ xres[r].st = "resolved" /\ "assemble" \notin faults[r]

\* a sanitizer accepts the value: (v || '') is a string
TextOrEmpty(v) == Falsy(v) \/ v.t = "string"

FieldSanitized(r, fn, field, before) ==
  outcome[r][field] =
    IF \A f \in before \cup {field} : TextOrEmpty(xres[r].val[f])
      THEN Sanitized(fn, xres[r].val[field])
      ELSE xres[r].val[field]

Injects(rq) ==
  /\ rq.tool = "execute_code_with_variables" /\ rq.code # ""
  /\ rq.variables.k = "object" /\ Len(rq.variables.vars) > 0
  /\ \A i \in 1..Len(rq.variables.vars) :
       Test(IdentifierRe, rq.variables.vars[i].name)

\* the declarations of the request's variables followed by its code
InjectedText(rq) ==
  Join([i \in 1..Len(rq.variables.vars) |->
          IF rq.language = "javascript"
            THEN "const " \o rq.variables.vars[i].name \o " = "
                 \o JsonStringify(rq.variables.vars[i]) \o ";"
            ELSE PyDeclaration(rq.variables.vars[i])], "\n") \o "\n\n" \o rq.code

\* the same request with the declarations written by hand into the code
HandWritten(rq) ==
  Request("execute_code", rq.language, InjectedText(rq), NoVariables, rq.timeout,
          rq.memoryLimit)

\* what the handler's checks answer to the hand-written form of each request
HandWrittenRejection ==
  [rq \in {q \in Requests : Injects(q)} |-> HandlerReject(HandWritten(rq))]

\* C13: in execute_code_with_variables the declarations are prepended before
\* any validation: the handler's checks (the 50,000-character limit and the
\* language security validation included) answer as they answer the same text
\* written by hand, a text over the limit is rejected with validation_error
\* and never executed, a rejected request is never executed, and the code
\* handed to the executor is declarations + code.
C13_DeclarationsValidatedAndExecuted ==
  \A r \in Reqs :
    (pc[r] # "idle" /\ Injects(req[r])) =>
      /\ invoked[r] => /\ xopt[r].code = InjectedText(req[r])
                       /\ HandWrittenRejection[req[r]] = None
      /\ ~invoked[r] => /\ HandWrittenRejection[req[r]] # None
                        /\ outcome[r].type = HandWrittenRejection[req[r]][1].type
                        /\ outcome[r].errors = HandWrittenRejection[req[r]][1].errors
                        /\ NeverExecuted(r)
      /\ Len(InjectedText(req[r])) > MAX_CODE_LENGTH =>
           /\ ~invoked[r] /\ outcome[r].type = "validation_error"
           /\ \E i \in 1..Len(outcome[r].errors) :
                outcome[r].errors[i]
                  = "Code is too long. Maximum length is 50000 characters"

\* a program that no rule matches, with an injected string value that a
\* blocking rule matches: answered security_error, nothing executed
C13_Witness ==
  \E r \in Reqs :
    /\ pc[r] = "done" /\ Injects(req[r])
    /\ ~validateLanguageCode(req[r].language, InjectedText(req[r])).isValid
    /\ validateLanguageCode(req[r].language, req[r].code).isValid
    /\ outcome[r].type = "security_error" /\ NeverExecuted(r)

(***************************************************************************)
(* C14: variable names                                                     *)
(***************************************************************************)
\* DYNAMIC_VARIABLES.md, Variable Name Validation: the words reserved in
\* JavaScript or in Python
ReservedWords ==
  {"class", "const", "function", "return", "var", "let", "new", "delete",
   "def", "lambda", "pass", "import", "from", "global", "None", "True", "False",
   "for", "while", "if", "else", "in", "is", "not", "and", "or", "try", "with"}

\* an identifier of both languages: a letter or underscore, then letters,
\* digits and underscores
PortableIdentifierRe == {<<Bos, OneOf(Letter \cup {"_"}), Star(WordCh), Eos>>}

ValidVariableName(name) ==
  Test(PortableIdentifierRe, name) /\ name \notin ReservedWords

\* the handler got past the required-parameter check and the parse of the
\* variables, and one of the names is not valid
HasInvalidName(rq) ==
  /\ rq.tool = "execute_code_with_variables" /\ rq.language # "" /\ rq.code # ""
  /\ rq.variables.k = "object"
  /\ \E i \in 1..Len(rq.variables.vars) :
       ~ValidVariableName(rq.variables.vars[i].name)

\* C14: execute_code_with_variables accepts a variable name only if it is an
\* identifier of both JavaScript and Python and no reserved keyword: a request
\* with any other name is answered validation_error after the parameter
\* checks alone, and nothing is executed.
C14_Stated ==
  \A r \in Reqs :
    (pc[r] # "idle" /\ HasInvalidName(req[r])) =>
      /\ pc[r] = "done" /\ outcome[r].type = "validation_error"
      /\ phases[r] = <<"parameters">> /\ NeverExecuted(r)

(***************************************************************************)
(* C15: the declarations of the injected variables                         *)
(***************************************************************************)
\* the Python literal that denotes a JSON value: True, False and None for the
\* booleans and null wherever they stand, a string as its JSON text
RECURSIVE PythonLiteral(_)
PythonLiteral(v) ==
  IF v.t = "boolean" THEN (IF v.s = "true" THEN "True" ELSE "False")
  ELSE IF v.t = "null" THEN "None"
  ELSE IF v.t = "array"
    THEN "[" \o Join([i \in 1..Len(v.items) |-> PythonLiteral(v.items[i])], ",")
         \o "]"
  ELSE IF v.t = "object"
    THEN "{" \o Join([i \in 1..Len(v.items) |->
                        JsonString(v.keys[i]) \o ":"
                        \o PythonLiteral(v.items[i])], ",") \o "}"
  ELSE JsonStringify(v)

\* the declarations that denote the request's values in its language, then
\* its code
LiteralText(rq) ==
  Join([i \in 1..Len(rq.variables.vars) |->
          IF rq.language = "javascript"
            THEN "const " \o rq.variables.vars[i].name \o " = "
                 \o JsonStringify(rq.variables.vars[i]) \o ";"
            ELSE rq.variables.vars[i].name \o " = "
                 \o PythonLiteral(rq.variables.vars[i])], "\n")
  \o "\n\n" \o rq.code

\* C15: the declaration generated for every injected variable is a literal
\* of the target language that denotes the variable's value: the code handed
\* to the executor is these literals' declarations followed by the code.
C15_Stated ==
  \A r \in Reqs :
    (invoked[r] /\ Injects(req[r])) => xopt[r].code = LiteralText(req[r])

(***************************************************************************)
(* C16: imports refused by the wrapper                                     *)
(***************************************************************************)
\* the module a program of ImportRequests imports
ImportedModule(rq) == SubSeq(rq.code, Len("import ") + 1, Len(rq.code))

\* the Python child of request r ran an import that secure_import refused,
\* exited, and execute has answered from that exit (not from its deadline)
ImportRefused(r) ==
  /\ pc[r] = "done" /\ req[r].language = "python"
  /\ \E m \in RefusedModules : req[r].code = "import " \o m
  /\ child[r] = "exited" /\ subp[r] = "rejected" /\ ~deadline[r]

\* C16: a Python run whose code passes the static validation and imports a
\* module that the wrapper's guarded loader refuses ends with a failure of
\* type security_error whose message names the module.
C16_Stated ==
  \A r \in Reqs :
    ImportRefused(r) =>
      /\ ~outcome[r].success /\ outcome[r].type = "security_error"
      /\ Includes(outcome[r].message, ImportedModule(req[r]))

(***************************************************************************)
(* C17: classification of a failed JavaScript run                          *)
(***************************************************************************)
\* the code of request r ran in the VM and execute returned a failure
JsRunFailed(r) ==
  /\ pc[r] = "done" /\ req[r].language = "javascript" /\ ctx[r]
  /\ xres[r].st = "resolved" /\ ~xres[r].val.success

\* C17: a failed JavaScript run is classified by the first matching row of:
\* deadline reached, timeout_error; memory signature in the fault's message,
\* memory_error; syntax-error signature, compilation_error; anything else,
\* runtime_error.  The runtime_error row carries the fault's message, so no
\* runtime_error has a message with one of the two signatures, and a run
\* whose deadline was reached is a timeout_error.
C17_Stated ==
  \A r \in Reqs :
    JsRunFailed(r) =>
      /\ deadline[r] => xres[r].val.type = "timeout_error"
      /\ xres[r].val.type = "runtime_error" =>
           /\ ~Includes(xres[r].val.message, "memory")
           /\ ~Includes(xres[r].val.message, "SyntaxError")

(***************************************************************************)
(* C18: syntax errors                                                      *)
(***************************************************************************)
\* request r is a direct call of execute with a program that has a syntax
\* error, and execute has answered from the run (not from its deadline)
SyntaxErrorRun(r) ==
  /\ pc[r] = "done" /\ req[r].tool = "direct" /\ ~deadline[r]
  /\ \/ req[r].language = "javascript" /\ req[r].code \in JsSyntaxErrorCodes
        /\ ctx[r]
     \/ req[r].language = "python" /\ req[r].code \in PySyntaxErrorCodes
        /\ child[r] = "exited" /\ subp[r] = "rejected"

\* C18: executing code that contains a syntax error through
\* JavaScriptExecutor.execute or PythonExecutor.execute returns success=false
\* with type runtime_error.
C18_Stated ==
  \A r \in Reqs :
    SyntaxErrorRun(r) =>
      /\ ~escaped[r] /\ ~outcome[r].success
      /\ outcome[r].type = "runtime_error"

(***************************************************************************)
(* C19: infinite-loop literals                                             *)
(***************************************************************************)
\* the request's code is an infinite-loop literal of its language, its
\* timeout is 1000 ms and it gives no other option
LoopLiteralRequest(rq) ==
  /\ rq.tool \in {"execute_code", "direct"} /\ rq.timeout = Some(1000)
  /\ rq.memoryLimit = None
  /\ \/ rq.language = "javascript" /\ rq.code = "while (true) { }"
     \/ rq.language = "python" /\ rq.code = "while True:\n  pass"

AdvisoryOnly(rq) ==
  /\ rq.tool = "execute_code" /\ ParametersValid(rq)
  /\ ~MatchesBlockingRule(rq.language, rq.code)
  /\ validateLanguageCode(rq.language, rq.code).warnings # <<>>

\* C20: for code that matches an advisory rule and no blocking rule the
\* validation accepts it, execution proceeds, and the advisory message is
\* reported in the warnings of the final execute_code outcome.
C20_Stated ==
  \A r \in Reqs :
    (pc[r] = "done" /\ AdvisoryOnly(req[r])) =>
      /\ validateLanguageCode(req[r].language, req[r].code).isValid
      /\ invoked[r]
      /\ \A i \in 1..Len(validateLanguageCode(req[r].language, req[r].code).warnings) :
           \E j \in 1..Len(outcome[r].warnings) :
             outcome[r].warnings[j]
               = validateLanguageCode(req[r].language, req[r].code).warnings[i]

(***************************************************************************)
(* C21: a string of 10,000,000 characters built by repetition              *)
(***************************************************************************)
RepetitionRequest(rq) ==
  /\ rq.tool \in {"execute_code", "direct"}
  /\ rq.code \in PyRepetitionCodes \cup JsRepetitionCodes

\* C21: code that builds a 10,000,000-character string by repetition never
\* produces a silent success: the final outcome carries an advisory warning
\* of the validator or is a failure (memory_error is the failure the claim
\* names; any failure is accepted here), and the output it returns is no
\* longer than the output size ceiling.
C21_Stated ==
  \A r \in Reqs :
    (pc[r] = "done" /\ RepetitionRequest(req[r]) /\ ~escaped[r]) =>
      /\ ~outcome[r].success \/ outcome[r].warnings # <<>>
      /\ outcome[r].success /\ outcome[r].output.t = "string" =>
           Len(outcome[r].output.s) <= MAX_OUTPUT_SIZE

(***************************************************************************)
(* C22: the memory limit                                                   *)
(***************************************************************************)
\* both submissions of the memory-limit specification are answered
BothAnswered ==
  /\ \A i \in MemPair : pc[i] = "done" /\ req[i].tool # "none"
  /\ [req[1] EXCEPT !.memoryLimit = None] = [req[2] EXCEPT !.memoryLimit = None]

ExecutorsOutcome(r) ==
  /\ xres[r].st = "resolved"
  /\ outcome[r].success = xres[r].val.success
  /\ outcome[r].type = xres[r].val.type
  /\ outcome[r].output = xres[r].val.output

InfrastructureFault(r) ==
  /\ HandlerDone(r) /\ ~escaped[r]
  /\ outcome[r].type \in {"internal_error", "executor_error"}

\* the messages the handler writes into such an outcome
FixedFaultTexts ==
  { "An unexpected error occurred during code execution",
    "An unexpected error occurred during code execution with variables",
    "javascript executor failed to initialize or execute",
    "python executor failed to initialize or execute",
    "Invalid execution result", "Unknown error", "" }

\* the text is what OutputSanitizer returns for it: nothing is left in it
\* that sanitizeError or sanitizeOutput replaces
PassedSanitizer(text) ==
  text = sanitizeError(text) \/ text = sanitizeOutput(text)

\* C24 as stated: an outcome that reports a fault of the host infrastructure
\* (internal_error, executor_error) carries no raw exception text: its
\* message and its details are fixed strings or texts that have passed
\* through OutputSanitizer.
C24_Stated ==
  \A r \in Reqs :
    InfrastructureFault(r) =>
      \A f \in {"message", "details"} :
        \/ outcome[r][f].t = "undefined"
        \/ /\ outcome[r][f].t = "string"
           /\ outcome[r][f].s \in FixedFaultTexts \/ PassedSanitizer(outcome[r][f].s)

(***************************************************************************)
(* C25: the output of a Python run                                         *)
(***************************************************************************)
\* C25 as stated: the output field returned equals exactly the text the
\* program wrote to standard output, with its leading and trailing
\* whitespace and with any 'STDOUT:' or 'STDERR:' it contains.
C25_Stated ==
  vin.fn = "pythonOutput" => vout.success /\ vout.output = Str(vin.written)

(***************************************************************************)
(* C26: readline                                                           *)
(***************************************************************************)
\* the lines stdin splits into
StdinLines(input) == IF input = None THEN <<>> ELSE Split(input[1], "\n")

\* the k-th line of stdin, the empty string beyond the last
LineOf(input, k) ==
  IF k <= Len(StdinLines(input)) THEN StdinLines(input)[k] ELSE ""

\* the number of calls of readline() in the first i statements
ReadsBefore(program, i) == Cardinality({j \in 1..i : program[j].k # "log"})

\* the lines the program prints, in program order
RECURSIVE PrintedLines(_, _, _)
PrintedLines(input, program, i) ==
  IF i > Len(program) THEN <<>>
  ELSE (IF program[i].k = "log" THEN <<program[i].text>>
        ELSE IF program[i].k = "echo"
          THEN <<"Hello, " \o LineOf(input, ReadsBefore(program, i)) \o "!">>
        ELSE <<>>)
       \o PrintedLines(input, program, i + 1)

\* C26: in a JavaScript run whose stdin splits into lines l1..ln, the k-th
\* call of readline() returns lk for k up to n and the empty string for
\* every later k, and the printed texts appear in output in program order.
C26_ReadlineReplaysStdin ==
  vin.fn = "readline" =>
    /\ Len(vout.reads) = ReadsBefore(vin.program, Len(vin.program))
    /\ \A k \in 1..Len(vout.reads) : vout.reads[k] = LineOf(vin.input, k)
    /\ vout.output = Join(PrintedLines(vin.input, vin.program, 1), "\n")

\* the prompt, then two reads of a two-line stdin echoed, then a read past
\* the end
C26_Witness ==
  /\ vin.fn = "readline" /\ vin.input = Some("a\nb")
  /\ vout.reads = <<"a", "b", "">>
  /\ vout.output = "What's your name?\nHello, a!\nHello, b!"

(***************************************************************************)
(* C27: the return value of a JavaScript run                               *)
(***************************************************************************)
\* C27 as stated: a JavaScript run that completes without a fault has the
\* value of the code's final expression as its returnValue: code '42' yields
\* returnValue 42, as the same value returned by a return statement does.
C27_Stated ==
  \A r \in Reqs :
    (pc[r] = "done" /\ req[r].tool # "none" /\ req[r].code \in ReturnValueCodes
       /\ outcome[r].success)
      => outcome[r].returnValue = NumOf("42")

(***************************************************************************)
(* C28: the limits of the parameters                                       *)
(***************************************************************************)
\* a parameter of the request is outside its limits (a timeout of 0 counts
\* as no timeout)
OutsideLimits(rq) ==
  \/ rq.timeout # None /\ rq.timeout[1] # 0
       /\ (rq.timeout[1] < TimeoutMinimum \/ rq.timeout[1] > TimeoutMaximum)
  \/ rq.memoryLimit # None /\ (rq.memoryLimit[1] < 0 \/ rq.memoryLimit[1] > 512)
  \/ Len(rq.code) > MAX_CODE_LENGTH
  \/ rq.input # None /\ Len(rq.input[1]) > MAX_INPUT_LENGTH

\* C28 as stated: a request whose timeout lies outside [100, 60000], whose
\* memory limit lies outside [0, 512], whose code exceeds 50,000 characters
\* or whose stdin exceeds 10,000 characters is rejected with
\* validation_error and is never executed (a request whose code is refused
\* as well may report that refusal instead).
C28_Stated ==
  \A r \in Reqs :
    (HandlerDone(r) /\ OutsideLimits(req[r])) =>
      /\ ~outcome[r].success
      /\ outcome[r].type \in {"validation_error", "security_error"}
      /\ ~invoked[r]

(***************************************************************************)
(* C29: sanitizeReturnValue                                                *)
(***************************************************************************)
\* the objects of the heap a value refers to directly
RefsOf(v) ==
  IF v.k = "ref" THEN {v.id}
  ELSE IF v.k \in {"array", "object"}
    THEN {v.items[i].val.id : i \in {j \in 1..Len(v.items) : v.items[j].val.k = "ref"}}
  ELSE {}

\* the objects reachable from a set of objects in at most n steps
RECURSIVE ReachableFrom(_, _, _)
ReachableFrom(heap, ids, n) ==
  IF n = 0 THEN ids
  ELSE ReachableFrom(heap, ids \cup UNION {RefsOf(heap[id]) : id \in ids}, n - 1)

\* the value contains a cycle: an object reachable from it reaches itself
HasCycle(heap, v) ==
  \E id \in ReachableFrom(heap, RefsOf(v), Cardinality(DOMAIN heap)) :
     id \in ReachableFrom(heap, RefsOf(heap[id]), Cardinality(DOMAIN heap))

\* the tree is finite data: it refers to no object of the heap
RECURSIVE IsTree(_)
IsTree(t) ==
  IF t.k = "ref" THEN FALSE
  ELSE IF t.k \in {"array", "object"}
    THEN \A i \in 1..Len(t.items) : IsTree(t.items[i].val)
  ELSE TRUE

RECURSIVE HasMarker(_)
HasMarker(t) ==
  IF t.k \in {"array", "object"}
    THEN \E i \in 1..Len(t.items) : HasMarker(t.items[i].val)
  ELSE t = CircularMarker

TruncationMarkerLength == Len("\n... (output truncated due to size limit)")

\* C30 as stated: the result of sanitizeOutput is no longer than the size
\* ceiling plus the truncation marker and has no more lines than the line
\* ceiling plus the marker line, redaction included, and a text within both
\* ceilings is never truncated.
C30_Stated ==
  vin.fn = "sanitizeOutput" =>
    /\ Len(vout.text) <= vin.maxOutputSize + TruncationMarkerLength
    /\ Len(Split(vout.text, "\n")) <= vin.maxLines + 1
    /\ (Len(vin.text) <= vin.maxOutputSize
          /\ Len(Split(vin.text, "\n")) <= vin.maxLines)
         => ~Contains(vout.text, "output truncated")

\* the outcomes a JavaScript request has when it is the only run of the
\* server, in the realm as the process started it
AloneOutcomes(rq) ==
  { HandlerFinish(rq, executeWithNodeVM(InRealm(NativeRealm, b),
                                        EffectiveTimeout(OptionsOf(rq)))).outcome :
      b \in JsRunOf(OptionsOf(rq).code, ConcJsBehaviours) }

\* C31 (as stated): whatever the other executions did, a JavaScript run that
\* was answered has an outcome the same request has when it runs alone
C31_Stated ==
  \A r \in Reqs :
    (pc[r] = "done" /\ invoked[r] /\ req[r].language = "javascript")
      => outcome[r] \in AloneOutcomes(req[r])

\* C32 (as stated): once the race of a run has been decided by the operation
\* (the run was answered and its timer had not fired), no timer of that run
\* remains pending
C32_Stated ==
  \A r \in Reqs : (pc[r] = "done" /\ invoked[r]) => timer[r] # "pending"

\* every candidate of findPythonExecutable failed for the run of request r
NoneFound(r) == exe[r].probed /\ exe[r].used = None

NotFoundMessage ==
  Str("Python executable not found. Please ensure Python is installed and available in your PATH.")

NotFoundOutcome(r) ==
  /\ ~outcome[r].success
  /\ outcome[r].type = "runtime_error"
  /\ outcome[r].message = NotFoundMessage

FirstWorking(used, works) ==
  IF used = None
    THEN \A k \in 1..Len(pythonCandidates) : pythonCandidates[k] \notin works
    ELSE \E k \in 1..Len(pythonCandidates) :
           /\ pythonCandidates[k] = used[1]
           /\ used[1] \in works
           /\ \A j \in 1..(k - 1) : pythonCandidates[j] \notin works

OnDenyList(name) == NamedOrWithin(name, blocked_modules)

OnAllowOrSafeList(name) ==
  \/ NamedOrWithin(name, allowed_modules)
  \/ name \in safe_builtins
  \/ NamedOrWithin(name, internal_safe_modules)

\* the import statements the program ran, each with the state it left
ImportsRun ==
  { k \in 1..(Len(vout.during) - 1) : vin.program[k].op = "import" }

\* C34 (as stated): an import of a module on the deny-list (or of a submodule
\* of one) is refused, an import of a module on the allow-list or a safe list
\* is loaded, an import of any other module is refused, and the guarded
\* import and the refusing open are the ones installed in builtins at every
\* moment of the user code
C34_Stated ==
  vin.fn = "wrapper" =>
    /\ \A k \in ImportsRun :
         LET name == vin.program[k].name
         IN (name \in vout.during[k + 1].loaded)
              <=> (OnAllowOrSafeList(name) /\ ~OnDenyList(name))
    /\ \A k \in 1..Len(vout.during) :
         /\ vout.during[k].builtins["__import__"] = "secure_import"
         /\ vout.during[k].builtins["open"] = "blocked_open"

\* the names under which the wrapper keeps the primitives it replaced
SavedOriginals == {"original_exec", "original_eval", "original_import"}

\* C35 (as stated): at every moment of the user code builtins.exec and
\* builtins.eval are the refusing versions, the original evaluation primitive
\* has been invoked once only (by the wrapper), and the user code resolves
\* none of the names original_exec, original_eval, original_import
C35_Stated ==
  vin.fn = "wrapper" =>
    \A k \in 1..Len(vout.during) :
      /\ vout.during[k].builtins["exec"] = "blocked_exec"
      /\ vout.during[k].builtins["eval"] = "blocked_eval"
      /\ vout.during[k].evaluations = 1
      /\ vout.during[k].resolved \cap SavedOriginals = {}

\* C36 (as stated): whatever timeoutMs the request carries and whatever
\* maximum execution time the process was configured with, the timeout the
\* handler hands to the executor lies between 100 and 60000 ms, and
\* validateInput of the executor does not reject the options
C36_Stated ==
  vin.fn = "normalizeTimeout" =>
    /\ vout.timeout >= TimeoutMinimum
    /\ vout.timeout <= TimeoutMaximum
    /\ vout.invalid = None

\* C37: for a Python child, in every order of its 'error' and 'close'
\* events, a handler starts its unlink of the temporary file only if no
\* handler of that child has started before (isResolved was false and is set,
\* and is never reset), so the handlers unlink at most once; and the promise
\* of executePythonSubprocess, once settled, keeps its settlement
C37_HandlersSettleOnce ==
  [][\A r \in Reqs :
       /\ isResolved[r] => isResolved'[r]
       /\ (apos[r] = "spawned" /\ pend'[r] # pend[r] /\ pend'[r] # None)
            => (~isResolved[r] /\ isResolved'[r] /\ pend[r] = None)
       /\ subp[r] # "pending" => subp'[r] = subp[r]]_vars

\* both events fired for the same child: 'error' settled the run, 'close'
\* came after it
C37_Witness ==
  \E r \in Reqs :
    /\ child[r] = "closed"
    /\ isResolved[r]
    /\ pend[r] = None
    /\ subp[r] = "rejected"
    /\ file[r] = "deleted"

\* C38 (as stated): for every user code the generated literal ends where the
\* wrapper ends it (nothing of the code is left over on the line) and its
\* value is exactly the user code
C38_Stated ==
  vin.fn = "userCodeLiteral" =>
    /\ vout.closed
    /\ vout.after = ""
    /\ vout.value = vin.userCode

\* C39 (as stated): a value in which no object reaches itself comes out of
\* sanitizeReturnValue without the marker '[Circular Reference]': an object
\* referred to from two places is copied in both
C39_Stated ==
  (vin.fn = "sanitizeReturnValue" /\ ~HasCycle(vin.heap, vin.value))
    => ~HasMarker(vout.once)

\* C40: after any calls of createTimeout, clearTimeout and clearAllTimeouts
\* and any firings, activeTimeouts holds exactly the ids that have a pending
\* timer, each id has at most one pending timer and it is the one the map
\* names; the callback of a timer that was cleared or replaced has not run,
\* and no callback has run twice
C40_ActiveTimeoutsExact ==
  /\ {id \in TimeoutIds : activeTimeouts[id] # None} = {t.id : t \in nodeTimers}
  /\ \A t \in nodeTimers : activeTimeouts[t.id] = Some(t.handle)
  /\ \A t1, t2 \in nodeTimers : t1.id = t2.id => t1 = t2
  /\ \A h \in cleared : ran[h] = 0 /\ \A t \in nodeTimers : t.handle # h
  /\ \A h \in 1..MaxTimers : ran[h] <= 1

\* one timer fired, one was replaced by a later createTimeout of its id, and
\* the replacement is pending
C40_Witness ==
  \E h1, h2, h3 \in 1..MaxTimers :
    /\ ran[h1] = 1
    /\ h2 \in cleared
    /\ \E t \in nodeTimers : t.handle = h3 /\ activeTimeouts[t.id] = Some(h3)
    /\ h2 < h3

====
